---- MODULE Spec2Model ----
(***************************************************************************)
(* Ingestion -> dedup -> queue -> annotate -> batch-summarise -> report    *)
(* pipeline of the Xperiment scrapers.  Two programs are modelled:         *)
(*   "409rollingsummary" : index() starts orchestrator(), which replays    *)
(*       commentary.jsonl, starts llm_worker() and runs scrape_worker();   *)
(*   "rollingsummary"    : index() starts scrape_and_comment(), which      *)
(*       scrapes and annotates in one thread.                              *)
(* A session is one thread started by index(); sessions are numbered by    *)
(* the POST request that started them.                                     *)
(***************************************************************************)
EXTENDS Integers, Sequences, FiniteSets, TLC

\* ---------------------------------------------------------------- bounds
\* number of POST requests to index() in one behaviour
MaxSessions == 2
\* number of distinct timestamps the source can present when several
\* sessions run (Spec)
NumSessKeys == 1
\* number of distinct timestamps the source can present to one session (OneSpec)
NumKeys == 3
\* number of distinct timestamps the source presents in the long run (LongSpec)
MaxLongKeys == 23
\* scroll budget used by the model in place of total_scrolls = 50
MaxScrolls == 2
\* number of backend calls that may fail in one behaviour of LongSpec
MaxBackendFailures == 1
\* number of times the process is killed and started again (CrashSpec)
MaxCrashes == 1
\* number of distinct timestamps the source can present in CrashSpec
NumCrashKeys == 2

\* ------------------------------------------------------- program constants
\* rolling_context_length default of orchestrator() / scrape_and_comment()
rolling_context_length == 10
\* "if len(block_tweets) >= 10"
BlockSize == 10

Programs == {"409rollingsummary", "rollingsummary"}
Accounts == {"acct", "acct2"}
\* the account of the POSTs when one account is followed
OneAccount == {"acct"}
Sess == 1..MaxSessions
Keys == 1..NumKeys
SessKeys == 1..NumSessKeys
LongKeys == 1..MaxLongKeys
CrashKeys == 1..NumCrashKeys
\* a candidate whose <time> element has no datetime attribute
NoTs == 0
\* scrape_threads has no entry for the account
NoThread == 0

VARIABLES
    program,        \* which script is running
    req_pc,         \* index(): position of each POST handler
    req_acct,       \* index(): account name of each POST
    scrape_threads, \* scrape_threads[account] -> thread (session) or NoThread
    thr_pc,         \* position of the thread started by index()
    llm_pc,         \* position of the llm_worker thread of the session
    scrolls,        \* scrape loop: scroll iterations started
    seen_timestamps,\* per session
    tweet_queue,    \* per session, Queue()
    tweet,          \* llm_worker / scrape_and_comment: item being annotated
    context,        \* rolling context, per session
    block_tweets,   \* pending batch buffer, per session
    tweets_file,    \* <account>/tweets.jsonl
    commentary_file,\* <account>/commentary.jsonl
    summary_file,   \* <account>/summary.jsonl
    meta_file,      \* <account>/meta_summary.txt
    start_log,      \* history: keys in commentary.jsonl when the session was started
    put_hist,       \* history: keys appended to tweets.jsonl (and enqueued) by the session
    ann_hist,       \* history: keys appended to commentary.jsonl by the session
    sum_hist,       \* history: member lists of the summaries written by the session
    failed,         \* history: keys whose commentary request failed, per session
    nfail,          \* history: number of failed backend requests
    offered,        \* history: timestamps presented to the session with extractable content
    report_hist,    \* history: outcome of each generate_overall_report call of the session
    sum_fail,       \* history: number of failed summary requests of the session
    crashes,        \* number of times the process was killed and restarted
    report_text,    \* generate_overall_report: content received, per session
    browser_contexts, \* 100scrollaccntscrape: browser_contexts[account] -> session or NoThread
    ctx_open,       \* 100scrollaccntscrape: state of the browser context of each session
    sig_pc,         \* 100scrollaccntscrape: position of the main thread
    signals,        \* 100scrollaccntscrape: number of signals delivered
    handler_todo,   \* signal_handler: accounts the iteration has not visited
    handler_size,   \* signal_handler: size of browser_contexts when the iteration began
    seen_ids,       \* collect: the dedup keys of the run
    new_tweets,     \* collect: the candidates accepted by the run
    context_length  \* the argument rolling_context_length of orchestrator / scrape_and_comment

vars == <<program, req_pc, req_acct, scrape_threads, thr_pc, llm_pc, scrolls,
          seen_timestamps, tweet_queue, tweet, context, block_tweets,
          tweets_file, commentary_file, summary_file, meta_file,
          start_log, put_hist, ann_hist, sum_hist, failed, nfail,
          offered, report_hist, sum_fail, crashes, report_text,
          browser_contexts, ctx_open, sig_pc, signals, handler_todo,
          handler_size, seen_ids, new_tweets, context_length>>

\* the state of the shutdown path of 100scrollaccntscrape.py
shutdown_vars == <<browser_contexts, ctx_open, sig_pc, signals, handler_todo, handler_size>>

\* the state of one collecting run over candidates with id, origin and timestamp
key_vars == <<seen_ids, new_tweets>>

\* ---------------------------------------------------------------- helpers
Range(q) == {q[i] : i \in 1..Len(q)}

\* threading.Thread.is_alive()
is_alive(s) == thr_pc[s] \notin {"unborn", "done", "raised", "killed"}

\* replay that does not count error-marked records as annotated
replay_mutant(log) ==
    {log[i].timestamp : i \in {j \in 1..Len(log) : log[j].timestamp # NoTs /\ ~log[j].error}}

\* commentary.jsonl replay (orchestrator 302-311, scrape_and_comment 78-87):
\* every parseable line with a truthy timestamp
replay(log) == {log[i].timestamp : i \in {j \in 1..Len(log) : log[j].timestamp # NoTs}}

\* orchestrator 310-311 (scrape_and_comment 86-87, generate_overall_report
\* 32-33): "except: continue" - the number of skipped lines a replay counts
\* or prints
replay_skips(log) == 0

\* the keys recorded in a commentary.jsonl
logged_keys(log) == {log[i].timestamp : i \in 1..Len(log)}

\* the bytes a write left in commentary.jsonl when the process ended in
\* the middle of it: a prefix of the line, without its newline; utf8: the
\* prefix does not end inside a multi-byte character (json.dumps is called
\* with ensure_ascii=False)
TornLine(utf8) ==
    [timestamp |-> NoTs, error |-> FALSE, newline |-> FALSE, utf8 |-> utf8]
\* a newline-terminated line that json.loads rejects; utf8: its bytes decode
CorruptLine(utf8) ==
    [timestamp |-> NoTs, error |-> FALSE, newline |-> TRUE, utf8 |-> utf8]
ends_torn(f) == f # <<>> /\ f[Len(f)] \in {TornLine(TRUE), TornLine(FALSE)}

\* with open(commentary_file, "a") as cf: cf.write(json.dumps(...) + "\n"):
\* the bytes go to the end of the file, so after a partial line they make
\* one line with it
append_line(f, rec) ==
    IF ends_torn(f) THEN [f EXCEPT ![Len(f)] = CorruptLine(@.utf8)]
    ELSE Append(f, rec)
\* the write ends before its newline
append_torn(f, utf8) ==
    IF ends_torn(f) THEN [f EXCEPT ![Len(f)] = TornLine(@.utf8 /\ utf8)]
    ELSE Append(f, TornLine(utf8))

\* "for line in cf" on a file opened with encoding="utf-8": decoding is
\* strict, so a line whose bytes are not UTF-8 raises UnicodeDecodeError in
\* the iteration, outside the try around json.loads
replay_raises(log) ==
    \E i \in 1..Len(log) : log[i] \in {TornLine(FALSE), CorruptLine(FALSE)}

\* Python  lst[-n:]
LastN(lst, n) ==
    IF n = 0 \/ n >= Len(lst) THEN lst
    ELSE SubSeq(lst, Len(lst) - n + 1, Len(lst))

\* trim that keeps one entry too many
trim_mutant(ctx, n) ==
    IF Len(ctx) > n + 1 THEN <<ctx[1]>> \o LastN(ctx, n + 1) ELSE ctx

\* context = [context[0]] + context[-rolling_context_length:]  when too long
trim(ctx, n) ==
    IF Len(ctx) > n + 1 THEN <<ctx[1]>> \o LastN(ctx, n) ELSE ctx

RECURSIVE insert_sorted(_, _)
insert_sorted(item, sorted) ==
    IF sorted = <<>> THEN <<item>>
    ELSE IF item.timestamp < Head(sorted).timestamp
         THEN <<item>> \o sorted
         ELSE <<Head(sorted)>> \o insert_sorted(item, Tail(sorted))

\* block_tweets.sort(key=lambda x: x["timestamp"])  (stable)
RECURSIVE sort_by_timestamp(_)
sort_by_timestamp(blk) ==
    IF blk = <<>> THEN <<>>
    ELSE insert_sorted(blk[Len(blk)], sort_by_timestamp(SubSeq(blk, 1, Len(blk) - 1)))

member_keys(blk) == [i \in 1..Len(blk) |-> blk[i].timestamp]

\* a put on a queue of capacity 1 that gives up when the queue is full
queue_put_mutant(q, item) == IF Len(q) >= 1 THEN q ELSE Append(q, item)
\* a get that takes the newest item
queue_front_mutant(q) == q[Len(q)]

\* Queue.put on Queue(): maxsize 0, never blocks
queue_put(q, item) == Append(q, item)
\* Queue.get: oldest item
queue_front(q) == Head(q)
queue_rest(q) == Tail(q)

initial_context(p) ==
    IF p = "409rollingsummary" THEN <<[role |-> "user", key |-> NoTs]>>
    ELSE <<[role |-> "system", key |-> NoTs]>>

\* ------------------------------------------------------------------- Init
InitLeft(left) ==
    /\ req_pc = [r \in Sess |-> "idle"]
    /\ req_acct = [r \in Sess |-> "acct"]
    /\ scrape_threads = [a \in Accounts |-> NoThread]
    /\ thr_pc = [s \in Sess |-> "unborn"]
    /\ llm_pc = [s \in Sess |-> "unborn"]
    /\ scrolls = [s \in Sess |-> 0]
    /\ seen_timestamps = [s \in Sess |-> {}]
    /\ tweet_queue = [s \in Sess |-> <<>>]
    /\ tweet = [s \in Sess |-> NoTs]
    /\ context = [s \in Sess |-> <<>>]
    /\ block_tweets = [s \in Sess |-> <<>>]
    /\ tweets_file = [a \in Accounts |-> <<>>]
    /\ commentary_file = [a \in Accounts |-> <<>>]
    /\ summary_file = [a \in Accounts |-> IF a = "acct" THEN left ELSE <<>>]
    /\ meta_file = [a \in Accounts |-> <<>>]
    /\ start_log = [s \in Sess |-> {}]
    /\ put_hist = [s \in Sess |-> <<>>]
    /\ ann_hist = [s \in Sess |-> <<>>]
    /\ sum_hist = [s \in Sess |-> <<>>]
    /\ failed = [s \in Sess |-> {}]
    /\ nfail = 0
    /\ offered = [s \in Sess |-> {}]
    /\ report_hist = [s \in Sess |-> <<>>]
    /\ sum_fail = [s \in Sess |-> 0]
    /\ crashes = 0
    /\ report_text = [s \in Sess |-> 0]
    /\ browser_contexts = [a \in Accounts |-> NoThread]
    /\ ctx_open = [s \in Sess |-> "none"]
    /\ sig_pc = "serving"
    /\ signals = 0
    /\ handler_todo = {}
    /\ handler_size = 0
    /\ seen_ids = {}
    /\ new_tweets = <<>>

\* the state after construction over an empty account directory
InitCommon == InitLeft(<<>>)

Init ==
    /\ program \in Programs
    /\ context_length = rolling_context_length
    /\ InitCommon

\* ------------------------------------------------------------------ index
\* index() 337 / rollingsummary index() 330: the liveness test; a POST that
\* finds a live thread only redirects
index_check(r, a) ==
    /\ req_pc[r] = "idle"
    /\ \A q \in Sess : q < r => req_pc[q] # "idle"
    /\ IF scrape_threads[a] = NoThread \/ ~is_alive(scrape_threads[a])
       THEN /\ req_acct' = [req_acct EXCEPT ![r] = a]
            /\ req_pc' = [req_pc EXCEPT ![r] = "start"]
       ELSE UNCHANGED <<req_acct, req_pc>>
    /\ UNCHANGED <<shutdown_vars, key_vars, context_length, report_text,
                   offered, report_hist, sum_fail, crashes,
                   program, scrape_threads, thr_pc, llm_pc, scrolls,
                   seen_timestamps, tweet_queue, tweet, context, block_tweets,
                   tweets_file, commentary_file, summary_file, meta_file,
                   start_log, put_hist, ann_hist, sum_hist, failed, nfail>>

\* t = threading.Thread(...); t.start()
index_start(r) ==
    /\ req_pc[r] = "start"
    /\ req_pc' = [req_pc EXCEPT ![r] = "register"]
    /\ thr_pc' = [thr_pc EXCEPT ![r] = "replay"]
    /\ start_log' = [start_log EXCEPT ![r] = logged_keys(commentary_file[req_acct[r]])]
    /\ UNCHANGED <<shutdown_vars, key_vars, context_length, report_text,
                   offered, report_hist, sum_fail, crashes,
                   program, req_acct, scrape_threads, llm_pc, scrolls,
                   seen_timestamps, tweet_queue, tweet, context, block_tweets,
                   tweets_file, commentary_file, summary_file, meta_file,
                   put_hist, ann_hist, sum_hist, failed, nfail>>

\* scrape_threads[account] = t
index_register(r) ==
    /\ req_pc[r] = "register"
    /\ req_pc' = [req_pc EXCEPT ![r] = "done"]
    /\ scrape_threads' = [scrape_threads EXCEPT ![req_acct[r]] = r]
    /\ UNCHANGED <<shutdown_vars, key_vars, context_length, report_text,
                   offered, report_hist, sum_fail, crashes,
                   program, req_acct, thr_pc, llm_pc, scrolls,
                   seen_timestamps, tweet_queue, tweet, context, block_tweets,
                   tweets_file, commentary_file, summary_file, meta_file,
                   start_log, put_hist, ann_hist, sum_hist, failed, nfail>>

\* ----------------------------------------------------------- orchestrator
\* orchestrator 290-326: replay commentary.jsonl, create the queue, start
\* llm_worker, enter scrape_worker
orchestrator(s, opened) ==
    /\ program = "409rollingsummary"
    /\ thr_pc[s] = "replay"
    /\ IF replay_raises(commentary_file[req_acct[s]])
       THEN /\ thr_pc' = [thr_pc EXCEPT ![s] = "raised"]
            /\ UNCHANGED <<seen_timestamps, tweet_queue, context, block_tweets, llm_pc>>
       ELSE /\ seen_timestamps' = [seen_timestamps EXCEPT ![s] =
                                       replay(commentary_file[req_acct[s]])]
            /\ tweet_queue' = [tweet_queue EXCEPT ![s] = <<>>]
            /\ context' = [context EXCEPT ![s] = initial_context(program)]
            /\ block_tweets' = [block_tweets EXCEPT ![s] = <<>>]
            /\ llm_pc' = [llm_pc EXCEPT ![s] = "get"]
            /\ thr_pc' = [thr_pc EXCEPT ![s] = IF opened THEN "scroll" ELSE "raised"]
    /\ UNCHANGED <<shutdown_vars, key_vars, context_length, report_text,
                   offered, report_hist, sum_fail, crashes,
                   program, req_pc, req_acct, scrape_threads, scrolls, tweet,
                   tweets_file, commentary_file, summary_file, meta_file,
                   start_log, put_hist, ann_hist, sum_hist, failed, nfail>>

\* ---------------------------------------------------------- scrape_worker
\* for _ in range(total_scrolls): scroll, list the articles
scrape_worker_scroll(s) ==
    /\ program = "409rollingsummary"
    /\ thr_pc[s] = "scroll"
    /\ scrolls[s] < MaxScrolls
    /\ scrolls' = [scrolls EXCEPT ![s] = @ + 1]
    /\ UNCHANGED <<shutdown_vars, key_vars, context_length, report_text,
                   offered, report_hist, sum_fail, crashes,
                   program, req_pc, req_acct, scrape_threads, thr_pc, llm_pc,
                   seen_timestamps, tweet_queue, tweet, context, block_tweets,
                   tweets_file, commentary_file, summary_file, meta_file,
                   start_log, put_hist, ann_hist, sum_hist, failed, nfail>>

\* scrape_worker 95, 106: page.goto or page.locator("article").all() raises
\* outside every try: the exception leaves scrape_worker and orchestrator and
\* ends the thread
scrape_worker_raise(s) ==
    /\ program = "409rollingsummary"
    /\ thr_pc[s] = "scroll"
    /\ thr_pc' = [thr_pc EXCEPT ![s] = "raised"]
    /\ UNCHANGED <<shutdown_vars, key_vars, context_length, report_text,
                   offered, report_hist, sum_fail, crashes,
                   program, req_pc, req_acct, scrape_threads, llm_pc, scrolls,
                   seen_timestamps, tweet_queue, tweet, context, block_tweets,
                   tweets_file, commentary_file, summary_file, meta_file,
                   start_log, put_hist, ann_hist, sum_hist, failed, nfail>>

\* a collector without the try around the content extraction: the failure
\* of one article ends the thread
scrape_worker_tweet_mutant(s, ts, content_ok) ==
    /\ program = "409rollingsummary"
    /\ thr_pc[s] = "scroll"
    /\ scrolls[s] >= 1
    /\ offered' = [offered EXCEPT ![s] = IF ts # NoTs /\ content_ok THEN @ \cup {ts} ELSE @]
    /\ IF ts = NoTs \/ ts \in seen_timestamps[s]
       THEN UNCHANGED <<seen_timestamps, tweets_file, tweet_queue, put_hist, thr_pc>>
       ELSE /\ seen_timestamps' = [seen_timestamps EXCEPT ![s] = @ \cup {ts}]
            /\ IF content_ok
               THEN /\ tweets_file' = [tweets_file EXCEPT ![req_acct[s]] = Append(@, ts)]
                    /\ tweet_queue' = [tweet_queue EXCEPT ![s] = queue_put(@, ts)]
                    /\ put_hist' = [put_hist EXCEPT ![s] = Append(@, ts)]
                    /\ UNCHANGED thr_pc
               ELSE /\ thr_pc' = [thr_pc EXCEPT ![s] = "raised"]
                    /\ UNCHANGED <<tweets_file, tweet_queue, put_hist>>
    /\ UNCHANGED <<shutdown_vars, key_vars, context_length, report_text,
                   report_hist, sum_fail, crashes,
                   program, req_pc, req_acct, scrape_threads, llm_pc,
                   scrolls, tweet, context, block_tweets,
                   commentary_file, summary_file, meta_file,
                   start_log, ann_hist, sum_hist, failed, nfail>>

\* an article step that puts the item on the queue without the tweets.jsonl
\* append
scrape_worker_tweet_mutant_put(s, ts, content_ok) ==
    /\ program = "409rollingsummary"
    /\ thr_pc[s] = "scroll"
    /\ scrolls[s] >= 1
    /\ offered' = [offered EXCEPT ![s] = IF ts # NoTs /\ content_ok THEN @ \cup {ts} ELSE @]
    /\ IF ts = NoTs \/ ts \in seen_timestamps[s]
       THEN UNCHANGED <<seen_timestamps, tweet_queue, put_hist>>
       ELSE /\ seen_timestamps' = [seen_timestamps EXCEPT ![s] = @ \cup {ts}]
            /\ IF content_ok
               THEN /\ tweet_queue' = [tweet_queue EXCEPT ![s] = queue_put(@, ts)]
                    /\ put_hist' = [put_hist EXCEPT ![s] = Append(@, ts)]
               ELSE UNCHANGED <<tweet_queue, put_hist>>
    /\ UNCHANGED <<shutdown_vars, key_vars, context_length, report_text,
                   report_hist, sum_fail, crashes, tweets_file,
                   program, req_pc, req_acct, scrape_threads, thr_pc, llm_pc,
                   scrolls, tweet, context, block_tweets,
                   commentary_file, summary_file, meta_file,
                   start_log, ann_hist, sum_hist, failed, nfail>>

\* scrape_worker 107-161: one article of the current pass with timestamp ts
\* (NoTs: none) whose content extraction succeeds with non-empty text or not
scrape_worker_tweet(s, ts, content_ok) ==
    /\ program = "409rollingsummary"
    /\ thr_pc[s] = "scroll"
    /\ scrolls[s] >= 1
    /\ offered' = [offered EXCEPT ![s] = IF ts # NoTs /\ content_ok THEN @ \cup {ts} ELSE @]
    /\ IF ts = NoTs \/ ts \in seen_timestamps[s]
       THEN UNCHANGED <<seen_timestamps, tweets_file, tweet_queue, put_hist>>
       ELSE /\ seen_timestamps' = [seen_timestamps EXCEPT ![s] = @ \cup {ts}]
            /\ IF content_ok
               THEN /\ tweets_file' = [tweets_file EXCEPT ![req_acct[s]] = Append(@, ts)]
                    /\ tweet_queue' = [tweet_queue EXCEPT ![s] = queue_put(@, ts)]
                    /\ put_hist' = [put_hist EXCEPT ![s] = Append(@, ts)]
               ELSE UNCHANGED <<tweets_file, tweet_queue, put_hist>>
    /\ UNCHANGED <<shutdown_vars, key_vars, context_length, report_text,
                   report_hist, sum_fail, crashes,
                   program, req_pc, req_acct, scrape_threads, thr_pc, llm_pc,
                   scrolls, tweet, context, block_tweets,
                   commentary_file, summary_file, meta_file,
                   start_log, ann_hist, sum_hist, failed, nfail>>

\* browser.close(), scrape_worker and orchestrator return: the thread ends
scrape_worker_close(s) ==
    /\ program = "409rollingsummary"
    /\ thr_pc[s] = "scroll"
    /\ scrolls[s] = MaxScrolls
    /\ thr_pc' = [thr_pc EXCEPT ![s] = "done"]
    /\ UNCHANGED <<shutdown_vars, key_vars, context_length, report_text,
                   offered, report_hist, sum_fail, crashes,
                   program, req_pc, req_acct, scrape_threads, llm_pc, scrolls,
                   seen_timestamps, tweet_queue, tweet, context, block_tweets,
                   tweets_file, commentary_file, summary_file, meta_file,
                   start_log, put_hist, ann_hist, sum_hist, failed, nfail>>

\* ------------------------------------------------------------- llm_worker
user_turn(ts) == [role |-> "user", key |-> ts]
assistant_turn(ts) == [role |-> "assistant", key |-> ts]
\* one line of commentary.jsonl; error: llm_commentary is "[LLM ERROR: ...]"
commentary_record(ts, ok) == [timestamp |-> ts, error |-> ~ok]
\* one line of summary.jsonl; error: summary is "[SUMMARY ERROR: ...]"
summary_record(blk, ok) == [block_tweets |-> member_keys(blk), error |-> ~ok]

\* llm_worker 182, 190-195: get returns the oldest item; the user turn is appended
llm_worker_get(s) ==
    /\ llm_pc[s] = "get"
    /\ tweet_queue[s] # <<>>
    /\ tweet' = [tweet EXCEPT ![s] = queue_front(tweet_queue[s])]
    /\ tweet_queue' = [tweet_queue EXCEPT ![s] = queue_rest(@)]
    /\ context' = [context EXCEPT ![s] = Append(@, user_turn(queue_front(tweet_queue[s])))]
    /\ llm_pc' = [llm_pc EXCEPT ![s] = "trim"]
    /\ UNCHANGED <<shutdown_vars, key_vars, context_length, report_text,
                   offered, report_hist, sum_fail, crashes,
                   program, req_pc, req_acct, scrape_threads, thr_pc,
                   scrolls, seen_timestamps, block_tweets, tweets_file,
                   commentary_file, summary_file, meta_file, start_log,
                   put_hist, ann_hist, sum_hist, failed, nfail>>

\* llm_worker 183: get(timeout=5) raises Empty
llm_worker_empty(s) ==
    /\ llm_pc[s] = "get"
    /\ tweet_queue[s] = <<>>
    /\ llm_pc' = [llm_pc EXCEPT ![s] = "alive_check"]
    /\ UNCHANGED <<shutdown_vars, key_vars, context_length, report_text,
                   offered, report_hist, sum_fail, crashes,
                   program, req_pc, req_acct, scrape_threads, thr_pc,
                   scrolls, seen_timestamps, tweet_queue, tweet, context,
                   block_tweets, tweets_file, commentary_file, summary_file,
                   meta_file, start_log, put_hist, ann_hist, sum_hist,
                   failed, nfail>>

\* a break that goes on to the report without the remainder summary
llm_worker_alive_check_mutant(s) ==
    /\ llm_pc[s] = "alive_check"
    /\ llm_pc' = [llm_pc EXCEPT ![s] =
           IF scrape_threads[req_acct[s]] = NoThread
              \/ ~is_alive(scrape_threads[req_acct[s]])
           THEN "report" ELSE "get"]
    /\ UNCHANGED <<shutdown_vars, key_vars, context_length, report_text,
                   offered, report_hist, sum_fail, crashes,
                   program, req_pc, req_acct, scrape_threads, thr_pc,
                   scrolls, seen_timestamps, tweet_queue, tweet, context,
                   block_tweets, tweets_file, commentary_file, summary_file,
                   meta_file, start_log, put_hist, ann_hist, sum_hist,
                   failed, nfail>>

\* llm_worker 185-188: break when the registered scrape thread is absent or dead
llm_worker_alive_check(s) ==
    /\ llm_pc[s] = "alive_check"
    /\ llm_pc' = [llm_pc EXCEPT ![s] =
           IF scrape_threads[req_acct[s]] = NoThread
              \/ ~is_alive(scrape_threads[req_acct[s]])
           THEN "remainder" ELSE "get"]
    /\ UNCHANGED <<shutdown_vars, key_vars, context_length, report_text,
                   offered, report_hist, sum_fail, crashes,
                   program, req_pc, req_acct, scrape_threads, thr_pc,
                   scrolls, seen_timestamps, tweet_queue, tweet, context,
                   block_tweets, tweets_file, commentary_file, summary_file,
                   meta_file, start_log, put_hist, ann_hist, sum_hist,
                   failed, nfail>>

\* llm_worker 196-197
llm_worker_trim(s) ==
    /\ llm_pc[s] = "trim"
    /\ context' = [context EXCEPT ![s] = trim(@, context_length)]
    /\ llm_pc' = [llm_pc EXCEPT ![s] = "post"]
    /\ UNCHANGED <<shutdown_vars, key_vars, context_length, report_text,
                   offered, report_hist, sum_fail, crashes,
                   program, req_pc, req_acct, scrape_threads, thr_pc,
                   scrolls, seen_timestamps, tweet_queue, tweet,
                   block_tweets, tweets_file, commentary_file, summary_file,
                   meta_file, start_log, put_hist, ann_hist, sum_hist,
                   failed, nfail>>

\* a worker that skips the item when its commentary request fails
llm_worker_post_mutant(s, ok) ==
    /\ llm_pc[s] = "post"
    /\ context' = [context EXCEPT ![s] = IF ok THEN Append(@, assistant_turn(tweet[s])) ELSE @]
    /\ commentary_file' = [commentary_file EXCEPT ![req_acct[s]] =
                               IF ok THEN append_line(@, commentary_record(tweet[s], ok)) ELSE @]
    /\ block_tweets' = [block_tweets EXCEPT ![s] =
                            IF ok THEN Append(@, commentary_record(tweet[s], ok)) ELSE @]
    /\ ann_hist' = [ann_hist EXCEPT ![s] = IF ok THEN Append(@, tweet[s]) ELSE @]
    /\ failed' = [failed EXCEPT ![s] = IF ok THEN @ ELSE @ \cup {tweet[s]}]
    /\ nfail' = IF ok THEN nfail ELSE nfail + 1
    /\ llm_pc' = [llm_pc EXCEPT ![s] =
           IF ok /\ Len(block_tweets[s]) + 1 >= BlockSize THEN "block" ELSE "get"]
    /\ UNCHANGED <<shutdown_vars, key_vars, context_length, report_text,
                   offered, report_hist, sum_fail, crashes,
                   program, req_pc, req_acct, scrape_threads, thr_pc, scrolls,
                   seen_timestamps, tweet_queue, tweet, tweets_file, summary_file,
                   meta_file, start_log, put_hist, sum_hist>>

\* llm_worker 199-225: the commentary request (ok or an exception), the
\* assistant turn, the commentary.jsonl line, the pending block and the
\* test "len(block_tweets) >= 10"
llm_worker_post(s, ok) ==
    /\ llm_pc[s] = "post"
    /\ context' = [context EXCEPT ![s] = Append(@, assistant_turn(tweet[s]))]
    /\ commentary_file' = [commentary_file EXCEPT ![req_acct[s]] =
                               append_line(@, commentary_record(tweet[s], ok))]
    /\ block_tweets' = [block_tweets EXCEPT ![s] = Append(@, commentary_record(tweet[s], ok))]
    /\ ann_hist' = [ann_hist EXCEPT ![s] = Append(@, tweet[s])]
    /\ failed' = [failed EXCEPT ![s] = IF ok THEN @ ELSE @ \cup {tweet[s]}]
    /\ nfail' = IF ok THEN nfail ELSE nfail + 1
    /\ llm_pc' = [llm_pc EXCEPT ![s] =
           IF Len(block_tweets[s]) + 1 >= BlockSize THEN "block" ELSE "get"]
    /\ UNCHANGED <<shutdown_vars, key_vars, context_length, report_text,
                   offered, report_hist, sum_fail, crashes,
                   program, req_pc, req_acct, scrape_threads, thr_pc,
                   scrolls, seen_timestamps, tweet_queue, tweet, tweets_file,
                   summary_file, meta_file, start_log, put_hist, sum_hist>>

\* a summary step that leaves the block in the buffer
llm_worker_block_mutant(s, ok) ==
    /\ llm_pc[s] = "block"
    /\ summary_file' = [summary_file EXCEPT ![req_acct[s]] =
            Append(@, summary_record(sort_by_timestamp(block_tweets[s]), ok))]
    /\ sum_hist' = [sum_hist EXCEPT ![s] =
            Append(@, member_keys(sort_by_timestamp(block_tweets[s])))]
    /\ nfail' = IF ok THEN nfail ELSE nfail + 1
    /\ sum_fail' = [sum_fail EXCEPT ![s] = IF ok THEN @ ELSE @ + 1]
    /\ llm_pc' = [llm_pc EXCEPT ![s] = "get"]
    /\ UNCHANGED <<shutdown_vars, key_vars, context_length, report_text,
                   offered, report_hist, crashes, block_tweets,
                   program, req_pc, req_acct, scrape_threads, thr_pc,
                   scrolls, seen_timestamps, tweet_queue, tweet, context,
                   tweets_file, commentary_file, meta_file, start_log,
                   put_hist, ann_hist, failed>>

\* llm_worker 226-251: a full block: sort it, request the summary
\* (ok or an exception), append the summary.jsonl line, clear the block
llm_worker_block(s, ok) ==
    /\ llm_pc[s] = "block"
    /\ summary_file' = [summary_file EXCEPT ![req_acct[s]] =
            Append(@, summary_record(sort_by_timestamp(block_tweets[s]), ok))]
    /\ sum_hist' = [sum_hist EXCEPT ![s] =
            Append(@, member_keys(sort_by_timestamp(block_tweets[s])))]
    /\ block_tweets' = [block_tweets EXCEPT ![s] = <<>>]
    /\ nfail' = IF ok THEN nfail ELSE nfail + 1
    /\ sum_fail' = [sum_fail EXCEPT ![s] = IF ok THEN @ ELSE @ + 1]
    /\ llm_pc' = [llm_pc EXCEPT ![s] = "get"]
    /\ UNCHANGED <<shutdown_vars, key_vars, context_length, report_text,
                   offered, report_hist, crashes,
                   program, req_pc, req_acct, scrape_threads, thr_pc,
                   scrolls, seen_timestamps, tweet_queue, tweet, context,
                   tweets_file, commentary_file, meta_file, start_log,
                   put_hist, ann_hist, failed>>

\* a remainder step without the "if block_tweets:" gate
llm_worker_remainder_mutant(s, ok) ==
    /\ llm_pc[s] = "remainder"
    /\ summary_file' = [summary_file EXCEPT ![req_acct[s]] =
            Append(@, summary_record(sort_by_timestamp(block_tweets[s]), ok))]
    /\ sum_hist' = [sum_hist EXCEPT ![s] =
            Append(@, member_keys(sort_by_timestamp(block_tweets[s])))]
    /\ block_tweets' = [block_tweets EXCEPT ![s] = sort_by_timestamp(@)]
    /\ nfail' = IF ok THEN nfail ELSE nfail + 1
    /\ sum_fail' = [sum_fail EXCEPT ![s] = IF ok THEN @ ELSE @ + 1]
    /\ llm_pc' = [llm_pc EXCEPT ![s] = "report"]
    /\ UNCHANGED <<shutdown_vars, key_vars, context_length, report_text,
                   offered, report_hist, crashes,
                   program, req_pc, req_acct, scrape_threads, thr_pc,
                   scrolls, seen_timestamps, tweet_queue, tweet, context,
                   tweets_file, commentary_file, meta_file, start_log,
                   put_hist, ann_hist, failed>>

\* llm_worker 253-279: the remaining block after the loop
llm_worker_remainder(s, ok) ==
    /\ llm_pc[s] = "remainder"
    /\ IF block_tweets[s] # <<>>
       THEN /\ summary_file' = [summary_file EXCEPT ![req_acct[s]] =
                    Append(@, summary_record(sort_by_timestamp(block_tweets[s]), ok))]
            /\ sum_hist' = [sum_hist EXCEPT ![s] =
                    Append(@, member_keys(sort_by_timestamp(block_tweets[s])))]
            /\ block_tweets' = [block_tweets EXCEPT ![s] = sort_by_timestamp(@)]
            /\ nfail' = IF ok THEN nfail ELSE nfail + 1
            /\ sum_fail' = [sum_fail EXCEPT ![s] = IF ok THEN @ ELSE @ + 1]
       ELSE /\ ok
            /\ UNCHANGED <<summary_file, sum_hist, block_tweets, nfail, sum_fail>>
    /\ llm_pc' = [llm_pc EXCEPT ![s] = "report"]
    /\ UNCHANGED <<shutdown_vars, key_vars, context_length, report_text,
                   offered, report_hist, crashes,
                   program, req_pc, req_acct, scrape_threads, thr_pc,
                   scrolls, seen_timestamps, tweet_queue, tweet, context,
                   tweets_file, commentary_file, meta_file, start_log,
                   put_hist, ann_hist, failed>>

\* generate_overall_report 56-57: f.write(content) and the close of a file
\* that this call opened with "w": the bytes go to offset 0. old is what the
\* file holds at that moment: nothing since the open truncated it, unless
\* another writer wrote in between; then the new text replaces the front of
\* the other text and, when that one is longer, its tail stays behind it
write_text(old, text, longer) ==
    IF old # <<>> /\ longer THEN <<text>> \o old ELSE <<text>>

\* a summary.jsonl line that json.loads accepts and that has no "summary"
\* key (the model keeps the summary text of a record as its field error)
MalformedRecord == [block_tweets |-> <<>>]

\* generate_overall_report 45: entry['summary'] finds its key in the record
has_summary(rec) == "error" \in DOMAIN rec

\* a report step without the "if not summaries: return" gate
generate_overall_report_mutant(s, ok) ==
    /\ llm_pc[s] = "report"
    /\ IF ok
       THEN /\ report_text' = [report_text EXCEPT ![s] = Len(summary_file[req_acct[s]])]
            /\ meta_file' = [meta_file EXCEPT ![req_acct[s]] = <<>>]
            /\ llm_pc' = [llm_pc EXCEPT ![s] = "write"]
            /\ UNCHANGED <<report_hist, nfail>>
       ELSE /\ report_hist' = [report_hist EXCEPT ![s] = Append(@, "failed")]
            /\ nfail' = nfail + 1
            /\ llm_pc' = [llm_pc EXCEPT ![s] = "done"]
            /\ UNCHANGED <<report_text, meta_file>>
    /\ UNCHANGED <<shutdown_vars, key_vars, context_length,
                   offered, sum_fail, crashes,
                   program, req_pc, req_acct, scrape_threads, thr_pc,
                   scrolls, seen_timestamps, tweet_queue, tweet, context,
                   block_tweets, tweets_file, commentary_file, summary_file,
                   start_log, put_hist, ann_hist, sum_hist, failed>>

\* generate_overall_report 23-56, called at llm_worker 281: nothing without
\* summaries; otherwise one request over all summaries of the account; when
\* it fails the exception is printed (62-63); when it succeeds
\* meta_summary.txt is opened with "w", which truncates it (the model stores
\* the texts in the file, a text being the number of summaries it was
\* synthesised from; <<>>: no file or an empty one). Line 45 builds the
\* prompt from entry['summary'] of every parsed line, outside any try: a
\* line without that key raises KeyError through the call at llm_worker
\* 281, which has no handler, and the worker thread ends with it
generate_overall_report(s, ok) ==
    /\ llm_pc[s] = "report"
    /\ IF summary_file[req_acct[s]] = <<>>
       THEN /\ ok
            /\ report_hist' = [report_hist EXCEPT ![s] = Append(@, "skipped")]
            /\ llm_pc' = [llm_pc EXCEPT ![s] = "done"]
            /\ UNCHANGED <<report_text, meta_file, nfail>>
       ELSE IF \E i \in 1..Len(summary_file[req_acct[s]]) :
                   ~has_summary(summary_file[req_acct[s]][i])
       THEN /\ ok
            /\ report_hist' = [report_hist EXCEPT ![s] = Append(@, "raised")]
            /\ llm_pc' = [llm_pc EXCEPT ![s] = "raised"]
            /\ UNCHANGED <<report_text, meta_file, nfail>>
       ELSE IF ok
       THEN /\ report_text' = [report_text EXCEPT ![s] = Len(summary_file[req_acct[s]])]
            /\ meta_file' = [meta_file EXCEPT ![req_acct[s]] = <<>>]
            /\ llm_pc' = [llm_pc EXCEPT ![s] = "write"]
            /\ UNCHANGED <<report_hist, nfail>>
       ELSE /\ report_hist' = [report_hist EXCEPT ![s] = Append(@, "failed")]
            /\ nfail' = nfail + 1
            /\ llm_pc' = [llm_pc EXCEPT ![s] = "done"]
            /\ UNCHANGED <<report_text, meta_file>>
    /\ UNCHANGED <<shutdown_vars, key_vars, context_length,
                   offered, sum_fail, crashes,
                   program, req_pc, req_acct, scrape_threads, thr_pc,
                   scrolls, seen_timestamps, tweet_queue, tweet, context,
                   block_tweets, tweets_file, commentary_file, summary_file,
                   start_log, put_hist, ann_hist, sum_hist, failed>>

\* generate_overall_report 57-58: f.write(content), the file is closed, the
\* call returns and the worker ends
generate_overall_report_write(s, longer) ==
    /\ llm_pc[s] = "write"
    /\ meta_file' = [meta_file EXCEPT ![req_acct[s]] =
                         write_text(@, report_text[s], longer)]
    /\ report_hist' = [report_hist EXCEPT ![s] = Append(@, "written")]
    /\ llm_pc' = [llm_pc EXCEPT ![s] = "done"]
    /\ UNCHANGED <<shutdown_vars, key_vars, context_length, report_text, nfail,
                   offered, sum_fail, crashes,
                   program, req_pc, req_acct, scrape_threads, thr_pc,
                   scrolls, seen_timestamps, tweet_queue, tweet, context,
                   block_tweets, tweets_file, commentary_file, summary_file,
                   start_log, put_hist, ann_hist, sum_hist, failed>>

\* ----------------------------------------------------- scrape_and_comment
\* scrape_and_comment 50-112: replay commentary.jsonl, open the browser
scrape_and_comment(s, opened) ==
    /\ program = "rollingsummary"
    /\ thr_pc[s] = "replay"
    /\ IF replay_raises(commentary_file[req_acct[s]])
       THEN /\ thr_pc' = [thr_pc EXCEPT ![s] = "raised"]
            /\ UNCHANGED <<seen_timestamps, context, block_tweets>>
       ELSE /\ seen_timestamps' = [seen_timestamps EXCEPT ![s] =
                                       replay(commentary_file[req_acct[s]])]
            /\ context' = [context EXCEPT ![s] = initial_context(program)]
            /\ block_tweets' = [block_tweets EXCEPT ![s] = <<>>]
            /\ thr_pc' = [thr_pc EXCEPT ![s] = IF opened THEN "scroll" ELSE "raised"]
    /\ UNCHANGED <<shutdown_vars, key_vars, context_length, report_text,
                   offered, report_hist, sum_fail, crashes,
                   program, req_pc, req_acct, scrape_threads, llm_pc,
                   scrolls, tweet_queue, tweet, tweets_file, commentary_file,
                   summary_file, meta_file, start_log, put_hist, ann_hist,
                   sum_hist, failed, nfail>>

\* scrape_and_comment 113-118
scrape_and_comment_scroll(s) ==
    /\ program = "rollingsummary"
    /\ thr_pc[s] = "scroll"
    /\ scrolls[s] < MaxScrolls
    /\ scrolls' = [scrolls EXCEPT ![s] = @ + 1]
    /\ UNCHANGED <<shutdown_vars, key_vars, context_length, report_text,
                   offered, report_hist, sum_fail, crashes,
                   program, req_pc, req_acct, scrape_threads, thr_pc, llm_pc,
                   seen_timestamps, tweet_queue, tweet, context,
                   block_tweets, tweets_file, commentary_file, summary_file,
                   meta_file, start_log, put_hist, ann_hist, sum_hist,
                   failed, nfail>>

\* scrape_and_comment 121-163: one article; an accepted one is marked,
\* appended to tweets.jsonl and becomes the user turn
scrape_and_comment_tweet(s, ts, content_ok) ==
    /\ program = "rollingsummary"
    /\ thr_pc[s] = "scroll"
    /\ scrolls[s] >= 1
    /\ offered' = [offered EXCEPT ![s] = IF ts # NoTs /\ content_ok THEN @ \cup {ts} ELSE @]
    /\ IF ts = NoTs \/ ts \in seen_timestamps[s] \/ ~content_ok
       THEN UNCHANGED <<seen_timestamps, tweets_file, put_hist, tweet, context, thr_pc>>
       ELSE /\ seen_timestamps' = [seen_timestamps EXCEPT ![s] = @ \cup {ts}]
            /\ tweets_file' = [tweets_file EXCEPT ![req_acct[s]] = Append(@, ts)]
            /\ put_hist' = [put_hist EXCEPT ![s] = Append(@, ts)]
            /\ tweet' = [tweet EXCEPT ![s] = ts]
            /\ context' = [context EXCEPT ![s] = Append(@, user_turn(ts))]
            /\ thr_pc' = [thr_pc EXCEPT ![s] = "trim"]
    /\ UNCHANGED <<shutdown_vars, key_vars, context_length, report_text,
                   report_hist, sum_fail, crashes,
                   program, req_pc, req_acct, scrape_threads, llm_pc,
                   scrolls, tweet_queue, block_tweets, commentary_file,
                   summary_file, meta_file, start_log, ann_hist, sum_hist,
                   failed, nfail>>

\* scrape_and_comment 164-165
scrape_and_comment_trim(s) ==
    /\ program = "rollingsummary"
    /\ thr_pc[s] = "trim"
    /\ context' = [context EXCEPT ![s] = trim(@, context_length)]
    /\ thr_pc' = [thr_pc EXCEPT ![s] = "post"]
    /\ UNCHANGED <<shutdown_vars, key_vars, context_length, report_text,
                   offered, report_hist, sum_fail, crashes,
                   program, req_pc, req_acct, scrape_threads, llm_pc,
                   scrolls, seen_timestamps, tweet_queue, tweet,
                   block_tweets, tweets_file, commentary_file, summary_file,
                   meta_file, start_log, put_hist, ann_hist, sum_hist,
                   failed, nfail>>

\* scrape_and_comment 188-216: the commentary request; without a usable
\* commentary (exception, unparseable or empty) the item is skipped;
\* otherwise the test "len(block_tweets) >= 10" follows
scrape_and_comment_post(s, ok) ==
    /\ program = "rollingsummary"
    /\ thr_pc[s] = "post"
    /\ IF ok
       THEN /\ context' = [context EXCEPT ![s] = Append(@, assistant_turn(tweet[s]))]
            /\ commentary_file' = [commentary_file EXCEPT ![req_acct[s]] =
                                       append_line(@, commentary_record(tweet[s], TRUE))]
            /\ block_tweets' = [block_tweets EXCEPT ![s] =
                                    Append(@, commentary_record(tweet[s], TRUE))]
            /\ ann_hist' = [ann_hist EXCEPT ![s] = Append(@, tweet[s])]
            /\ thr_pc' = [thr_pc EXCEPT ![s] =
                   IF Len(block_tweets[s]) + 1 >= BlockSize THEN "block" ELSE "scroll"]
            /\ UNCHANGED <<failed, nfail>>
       ELSE /\ failed' = [failed EXCEPT ![s] = @ \cup {tweet[s]}]
            /\ nfail' = nfail + 1
            /\ thr_pc' = [thr_pc EXCEPT ![s] = "scroll"]
            /\ UNCHANGED <<context, commentary_file, block_tweets, ann_hist>>
    /\ UNCHANGED <<shutdown_vars, key_vars, context_length, report_text,
                   offered, report_hist, sum_fail, crashes,
                   program, req_pc, req_acct, scrape_threads, llm_pc,
                   scrolls, seen_timestamps, tweet_queue, tweet, tweets_file,
                   summary_file, meta_file, start_log, put_hist, sum_hist>>

\* scrape_and_comment 217-271: a full block: request the summary; the line
\* is written only when the request yields a summary; the block is reset
scrape_and_comment_block(s, ok) ==
    /\ program = "rollingsummary"
    /\ thr_pc[s] = "block"
    /\ IF ok
       THEN /\ summary_file' = [summary_file EXCEPT ![req_acct[s]] =
                    Append(@, summary_record(block_tweets[s], TRUE))]
            /\ sum_hist' = [sum_hist EXCEPT ![s] =
                    Append(@, member_keys(block_tweets[s]))]
            /\ UNCHANGED <<nfail, sum_fail>>
       ELSE /\ nfail' = nfail + 1
            /\ sum_fail' = [sum_fail EXCEPT ![s] = @ + 1]
            /\ UNCHANGED <<summary_file, sum_hist>>
    /\ block_tweets' = [block_tweets EXCEPT ![s] = <<>>]
    /\ thr_pc' = [thr_pc EXCEPT ![s] = "scroll"]
    /\ UNCHANGED <<shutdown_vars, key_vars, context_length, report_text,
                   offered, report_hist, crashes,
                   program, req_pc, req_acct, scrape_threads, llm_pc,
                   scrolls, seen_timestamps, tweet_queue, tweet, context,
                   tweets_file, commentary_file, meta_file, start_log,
                   put_hist, ann_hist, failed>>

\* scrape_and_comment 286-290: browser.close(), the thread ends
scrape_and_comment_close(s) ==
    /\ program = "rollingsummary"
    /\ thr_pc[s] = "scroll"
    /\ scrolls[s] = MaxScrolls
    /\ thr_pc' = [thr_pc EXCEPT ![s] = "done"]
    /\ UNCHANGED <<shutdown_vars, key_vars, context_length, report_text,
                   offered, report_hist, sum_fail, crashes,
                   program, req_pc, req_acct, scrape_threads, llm_pc,
                   scrolls, seen_timestamps, tweet_queue, tweet, context,
                   block_tweets, tweets_file, commentary_file, summary_file,
                   meta_file, start_log, put_hist, ann_hist, sum_hist,
                   failed, nfail>>

\* ---------------------------------------------------------------- process
\* a thread of the session is between its start and its end
running(s) ==
    \/ thr_pc[s] \notin {"unborn", "done", "raised", "killed"}
    \/ llm_pc[s] \notin {"unborn", "done", "raised", "killed"}

\* the thread of the session is in its commentary.jsonl write
writing(s) == llm_pc[s] = "post" \/ thr_pc[s] = "post"

\* The process (app.run) is killed and started again: every handler and
\* thread ends where it is and scrape_threads of the new process is empty.
\* w is a session whose commentary.jsonl write was under way (a prefix of
\* the line stays in the file; utf8: it ends between two characters) or
\* NoThread (no write was under way).
Crash(w, utf8) ==
    /\ crashes < MaxCrashes
    /\ \E s \in Sess : running(s)
    /\ IF w = NoThread THEN utf8 ELSE writing(w)
    /\ commentary_file' =
           IF w = NoThread THEN commentary_file
           ELSE [commentary_file EXCEPT ![req_acct[w]] = append_torn(@, utf8)]
    /\ thr_pc' = [s \in Sess |-> IF is_alive(s) THEN "killed" ELSE thr_pc[s]]
    /\ llm_pc' = [s \in Sess |->
                     IF llm_pc[s] \in {"unborn", "done", "raised"} THEN llm_pc[s] ELSE "killed"]
    /\ req_pc' = [r \in Sess |->
                     IF req_pc[r] \in {"start", "register"} THEN "done" ELSE req_pc[r]]
    /\ scrape_threads' = [a \in Accounts |-> NoThread]
    /\ crashes' = crashes + 1
    /\ UNCHANGED <<shutdown_vars, key_vars, context_length, report_text,
                   program, req_acct, scrolls, seen_timestamps, tweet_queue,
                   tweet, context, block_tweets, tweets_file, summary_file,
                   meta_file, start_log, put_hist, ann_hist, sum_hist,
                   failed, nfail, offered, report_hist, sum_fail>>

\* ------------------------------------------------------------------- Next
\* scrape_worker 76, rollingsummary 92: the user_data_dir of every session,
\* whatever its account
profile_dir(s) == ".chromium-profile"

\* the browser of session q is open on the profile directory
browsing(q) == thr_pc[q] \in {"scroll", "trim", "post", "block"}

\* every session launches its persistent context on the same user_data_dir
\* ".chromium-profile" (scrape_worker 76, 89-93): the directory is in use
\* by the browser of another session
profile_busy(s) == \E q \in Sess : q # s /\ browsing(q)

\* launch_persistent_context on a user_data_dir that another browser holds
\* either fails or opens a second browser on the same profile
LaunchOutcomes(s) == IF profile_busy(s) THEN BOOLEAN ELSE {TRUE}

\* the text in meta_summary.txt, if any, is longer than the text that
\* session s is about to write, or not
WriteOutcomes(s) == IF meta_file[req_acct[s]] # <<>> THEN BOOLEAN ELSE {FALSE}

\* a backend request may fail while the failure budget lasts
Outcomes == IF nfail < MaxBackendFailures THEN BOOLEAN ELSE {TRUE}

Index ==
    \/ \E r \in Sess, a \in OneAccount : index_check(r, a)
    \/ \E r \in Sess : index_start(r)
    \/ \E r \in Sess : index_register(r)

Worker ==
    \/ \E s \in Sess : llm_worker_get(s)
    \/ \E s \in Sess : llm_worker_empty(s)
    \/ \E s \in Sess : llm_worker_alive_check(s)
    \/ \E s \in Sess : llm_worker_trim(s)
    \/ \E s \in Sess, ok \in Outcomes : llm_worker_post(s, ok)
    \/ \E s \in Sess, ok \in Outcomes : llm_worker_remainder(s, ok)
    \/ \E s \in Sess, ok \in Outcomes : generate_overall_report(s, ok)
    \/ \E s \in Sess : \E longer \in WriteOutcomes(s) : generate_overall_report_write(s, longer)

Single ==
    \/ \E s \in Sess : \E opened \in LaunchOutcomes(s) : scrape_and_comment(s, opened)
    \/ \E s \in Sess : scrape_and_comment_scroll(s)
    \/ \E s \in Sess : scrape_and_comment_trim(s)
    \/ \E s \in Sess, ok \in Outcomes : scrape_and_comment_post(s, ok)
    \/ \E s \in Sess : scrape_and_comment_close(s)

\* the summary of a full block of BlockSize items; reachable only over a
\* source with at least BlockSize timestamps
Batch ==
    \/ \E s \in Sess, ok \in Outcomes : llm_worker_block(s, ok)
    \/ \E s \in Sess, ok \in Outcomes : scrape_and_comment_block(s, ok)

Collector ==
    \/ \E s \in Sess : \E opened \in LaunchOutcomes(s) : orchestrator(s, opened)
    \/ \E s \in Sess : scrape_worker_scroll(s)
    \/ \E s \in Sess : scrape_worker_close(s)

\* the source presents any timestamp, in any order, any number of times;
\* it has fewer than BlockSize timestamps, so no block fills up
Source ==
    \/ \E s \in Sess, ts \in SessKeys \cup {NoTs}, c \in BOOLEAN : scrape_worker_tweet(s, ts, c)
    \/ \E s \in Sess, ts \in SessKeys \cup {NoTs}, c \in BOOLEAN : scrape_and_comment_tweet(s, ts, c)

Next == Index \/ Collector \/ Source \/ Worker \/ Single

\* any number of sessions started through index()
Spec == Init /\ [][Next]_vars

\* ---------------------------------------------------------------- SerialSpec
\* POSTs are handled one at a time: a POST arrives only when no other
\* handler is between its liveness test and its registration.
no_handler_running == \A r \in Sess : req_pc[r] \in {"idle", "done"}

SerialIndex ==
    \/ \E r \in Sess, a \in OneAccount : no_handler_running /\ index_check(r, a)
    \/ \E r \in Sess : index_start(r)
    \/ \E r \in Sess : index_register(r)

SerialNext == SerialIndex \/ Collector \/ Source \/ Worker \/ Single

SerialSpec == Init /\ [][SerialNext]_vars

\* ----------------------------------------------------------------- OneSpec
\* One POST, one session, over a source with NumKeys timestamps.
OneIndex ==
    \/ \E a \in OneAccount : index_check(1, a)
    \/ index_start(1)
    \/ index_register(1)

OneSource ==
    \/ \E s \in Sess, ts \in Keys \cup {NoTs}, c \in BOOLEAN : scrape_worker_tweet(s, ts, c)
    \/ \E s \in Sess, ts \in Keys \cup {NoTs}, c \in BOOLEAN : scrape_and_comment_tweet(s, ts, c)

OneNext == OneIndex \/ Collector \/ OneSource \/ Worker \/ Single

OneSpec == Init /\ [][OneNext]_vars

\* ---------------------------------------------------------------- LongSpec
\* One session over a source that presents MaxLongKeys distinct tweets,
\* newest first, so that blocks of 10 and the rolling context fill up.
\* the newest timestamp not yet seen by the session
newest_unseen(s) ==
    IF LongKeys \ seen_timestamps[s] = {} THEN NoTs
    ELSE CHOOSE k \in LongKeys \ seen_timestamps[s] :
             \A j \in LongKeys \ seen_timestamps[s] : j <= k

\* the articles are listed in the last pass, newest first
LongSource ==
    \/ \E s \in Sess : scrolls[s] = MaxScrolls /\ scrape_worker_tweet(s, newest_unseen(s), TRUE)
    \/ \E s \in Sess : scrolls[s] = MaxScrolls /\ scrape_and_comment_tweet(s, newest_unseen(s), TRUE)

LongNext == OneIndex \/ Collector \/ LongSource \/ Worker \/ Single \/ Batch

LongSpec == Init /\ [][LongNext]_vars

\* --------------------------------------------------------------- CrashSpec
\* Sessions one after the other, the process being killed and started again
\* at most MaxCrashes times: a POST arrives only when no handler and no
\* thread is running.
quiet == no_handler_running /\ \A s \in Sess : ~running(s)

CrashIndex ==
    \/ \E r \in Sess, a \in OneAccount : quiet /\ index_check(r, a)
    \/ \E r \in Sess : index_start(r)
    \/ \E r \in Sess : index_register(r)

ProcessEnd == \E w \in Sess \cup {NoThread}, utf8 \in BOOLEAN : Crash(w, utf8)

CrashSource ==
    \/ \E s \in Sess, ts \in CrashKeys \cup {NoTs}, c \in BOOLEAN : scrape_worker_tweet(s, ts, c)
    \/ \E s \in Sess, ts \in CrashKeys \cup {NoTs}, c \in BOOLEAN : scrape_and_comment_tweet(s, ts, c)

CrashNext == CrashIndex \/ Collector \/ CrashSource \/ Worker \/ Single \/ ProcessEnd

CrashSpec == Init /\ [][CrashNext]_vars

\* fair scheduling of the threads that exist: every started handler, scrape
\* thread and worker keeps taking steps; POSTs and the tweets the source
\* presents are the environment's choice
OneFairSpec ==
    /\ OneSpec
    /\ WF_vars(index_start(1) \/ index_register(1))
    /\ WF_vars(Collector)
    /\ WF_vars(Worker)
    /\ WF_vars(Single)

\* ------------------------------------------------------------- properties
IsPrefix(p, q) == Len(p) <= Len(q) /\ SubSeq(q, 1, Len(p)) = p

\* the item llm_worker has dequeued and not yet written to commentary.jsonl
in_flight(s) == IF llm_pc[s] \in {"trim", "post"} THEN <<tweet[s]>> ELSE <<>>

\* the worker has left its consume loop
left_loop(s) == llm_pc[s] \in {"remainder", "report", "write", "done"}

\* C1: no key recorded in commentary.jsonl when a session was started is
\* appended to tweets.jsonl, enqueued or annotated again by that session.
C1_ResumeDedup ==
    \A s \in Sess : \A k \in start_log[s] :
        /\ k \notin Range(put_hist[s])
        /\ k \notin Range(tweet_queue[s])
        /\ k \notin Range(ann_hist[s])

\* a session started over a non-empty annotated log has run all its passes
C1_Witness ==
    \E s \in Sess : start_log[s] # {} /\ thr_pc[s] = "done" /\ scrolls[s] = MaxScrolls

\* C2: commentary.jsonl of an account holds at most one record per key.
C2_AtMostOnce ==
    \A a \in Accounts : \A i, j \in 1..Len(commentary_file[a]) :
        i # j => commentary_file[a][i].timestamp # commentary_file[a][j].timestamp

\* C3: every item scrape_worker put on the queue is written to
\* commentary.jsonl by llm_worker; a worker that has terminated has therefore
\* annotated every item its collector put.
C3_NoItemLost ==
    \A s \in Sess : llm_pc[s] = "done" => put_hist[s] = ann_hist[s]

\* C4 (as stated): the rolling context never has more than N+1 entries.
C4_ContextBound ==
    \A s \in Sess : Len(context[s]) <= rolling_context_length + 1

\* C4 (amended): at most N+1 entries right after the trim step (the context
\* sent to the backend), at most N+2 once the assistant turn is appended,
\* at most N+3 once the next user turn is appended.
C4_ContextBoundAmended ==
    \A s \in Sess :
        /\ Len(context[s]) <= rolling_context_length + 3
        /\ (llm_pc[s] = "post" \/ thr_pc[s] = "post")
               => Len(context[s]) <= rolling_context_length + 1
        /\ (llm_pc[s] \notin {"trim", "post"} /\ thr_pc[s] \notin {"trim", "post"})
               => Len(context[s]) <= rolling_context_length + 2

\* the trim step has cut a context that had outgrown N+1
C4_Witness ==
    \E s \in Sess :
        /\ llm_pc[s] = "post" \/ thr_pc[s] = "post"
        /\ Len(context[s]) = rolling_context_length + 1
        /\ 2 * Len(ann_hist[s]) + 2 > rolling_context_length + 1

\* ceil(n / BlockSize)
blocks_of(n) == (n + BlockSize - 1) \div BlockSize

\* the run of session s is over
run_over(s) ==
    IF program = "409rollingsummary" THEN llm_pc[s] = "done" ELSE thr_pc[s] = "done"

\* C5: a run that annotated n items has written ceil(n/10) summary records,
\* all of 10 members except the last, which has n mod 10 when that is not 0.
C5_BatchCount ==
    \A s \in Sess : run_over(s) =>
        /\ Len(sum_hist[s]) = blocks_of(Len(ann_hist[s]))
        /\ \A i \in 1..Len(sum_hist[s]) :
               Len(sum_hist[s][i]) =
                   IF i < Len(sum_hist[s]) \/ Len(ann_hist[s]) % BlockSize = 0
                   THEN BlockSize ELSE Len(ann_hist[s]) % BlockSize

RECURSIVE total_len(_)
total_len(ss) == IF ss = <<>> THEN 0 ELSE Len(Head(ss)) + total_len(Tail(ss))

\* C6: in llm_worker a failed commentary request does not stop the worker:
\* every dequeued item is persisted, with an error marker exactly when its
\* request failed; it joins the pending block like any other item, and the
\* block is summarised when it reaches 10.
C6_FailureIsolation ==
    program = "409rollingsummary" =>
    \A s \in Sess :
        /\ put_hist[s] = ann_hist[s] \o in_flight(s) \o tweet_queue[s] \/ left_loop(s)
        /\ failed[s] \subseteq Range(ann_hist[s])
        /\ \A k \in Range(ann_hist[s]) :
               /\ commentary_record(k, k \notin failed[s]) \in Range(commentary_file[req_acct[s]])
               /\ commentary_record(k, k \in failed[s]) \notin Range(commentary_file[req_acct[s]])
        /\ ~left_loop(s) =>
               /\ total_len(sum_hist[s]) + Len(block_tweets[s]) = Len(ann_hist[s])
               /\ Range(member_keys(block_tweets[s])) =
                      {ann_hist[s][i] : i \in (total_len(sum_hist[s]) + 1)..Len(ann_hist[s])}
               /\ \A i \in 1..Len(sum_hist[s]) : Len(sum_hist[s][i]) = BlockSize
               /\ llm_pc[s] # "block" => Len(block_tweets[s]) < BlockSize

\* a request failed, the item is in a summarised block of 10, and the worker
\* went on to annotate a later item normally
C6_Witness ==
    /\ program = "409rollingsummary"
    /\ \E s \in Sess : \E k \in failed[s] :
           /\ \E i \in 1..Len(sum_hist[s]) :
                  k \in Range(sum_hist[s][i]) /\ Len(sum_hist[s][i]) = BlockSize
           /\ \E j \in 1..Len(ann_hist[s]) :
                  /\ ann_hist[s][j] \notin failed[s]
                  /\ \E i \in 1..(j - 1) : ann_hist[s][i] = k

C8_QueueOrdering ==
    program = "409rollingsummary" =>
    \A s \in Sess : IsPrefix(ann_hist[s], put_hist[s])

\* two items were queued together, newer timestamp first, and both annotated
C8_Witness ==
    /\ program = "409rollingsummary"
    /\ \E s \in Sess :
           /\ Len(ann_hist[s]) >= 2
           /\ ann_hist[s][1] > ann_hist[s][2]

\* C9: once the collector has terminated, the worker eventually drains the
\* queue and terminates.
C9_EndOfStream ==
    \A s \in Sess :
        (program = "409rollingsummary" /\ thr_pc[s] = "done")
            ~> (llm_pc[s] = "done" /\ tweet_queue[s] = <<>>)

\* C10: llm_worker never leaves its consume loop while the collector of its
\* session is still running.
C10_StopsOnlyAfterCollector ==
    \A s \in Sess : left_loop(s) => thr_pc[s] = "done"

\* C11: a key is in the SeenSet of a session only when it was replayed from
\* commentary.jsonl or its item was appended to tweets.jsonl and enqueued
\* (handed to annotation) by the session; a candidate whose content
\* extraction fails or is empty is not marked.
C11_MarkAfterDeliver ==
    \A s \in Sess :
        seen_timestamps[s] \subseteq
            Range(put_hist[s]) \cup logged_keys(commentary_file[req_acct[s]])

\* a sequence without repeated elements
NoRepeat(q) == \A i, j \in 1..Len(q) : q[i] = q[j] => i = j

\* the scrape thread and the annotating worker of the session have ended
session_over(s) == thr_pc[s] = "done" /\ run_over(s)

\* C12: within a session a key is accepted, enqueued and annotated at most
\* once however often the passes present it, and when the session is over
\* the number of records it appended to commentary.jsonl is the number of
\* distinct keys the source presented that the log did not hold.
C12_WithinSessionDedup ==
    \A s \in Sess :
        /\ NoRepeat(put_hist[s])
        /\ NoRepeat(ann_hist[s])
        /\ session_over(s) =>
               Len(ann_hist[s]) = Cardinality(offered[s] \ start_log[s])

\* the part of C12 that concerns repeated keys only
C12_AcceptedOnce ==
    \A s \in Sess : NoRepeat(put_hist[s]) /\ NoRepeat(ann_hist[s])

\* session s was started by the process that replaced a killed one
after_crash(s) ==
    /\ thr_pc[s] \notin {"unborn", "raised", "killed"}
    /\ llm_pc[s] # "killed"
    /\ \E q \in Sess : q < s /\ (thr_pc[q] = "killed" \/ llm_pc[q] = "killed")

\* the keys a killed session had appended to tweets.jsonl that no session
\* before s had appended to commentary.jsonl
orphans(s) ==
    {k \in CrashKeys :
        /\ \E q \in Sess : /\ q < s
                           /\ thr_pc[q] = "killed" \/ llm_pc[q] = "killed"
                           /\ k \in Range(put_hist[q])
        /\ \A q \in Sess : q < s => k \notin Range(ann_hist[q])}

\* C13: an item that was in tweets.jsonl but not in commentary.jsonl when
\* the process stopped, and that the source presents again to the next
\* session, has been accepted, enqueued and annotated by that session when
\* it is over.
C13_RetryAfterCrash ==
    \A s \in Sess : after_crash(s) /\ session_over(s) =>
        \A k \in orphans(s) \cap offered[s] :
            k \in Range(put_hist[s]) /\ k \in Range(ann_hist[s])

\* the part of C13 that concerns the SeenSet: after the replay of the next
\* session no such item is in its SeenSet
C13_OrphanNotReplayed ==
    \A s \in Sess : after_crash(s) /\ thr_pc[s] = "scroll" /\ scrolls[s] = 0 =>
        orphans(s) \cap seen_timestamps[s] = {}

\* C14: whenever the process was terminated, also in the middle of a write,
\* every record whose append to commentary.jsonl completed - before the
\* termination or in a later session - is yielded by a replay of the file;
\* only the record whose write was cut short is missing.
C14_CrashDurability ==
    \A s \in Sess : \A k \in Range(ann_hist[s]) :
        k \in replay(commentary_file[req_acct[s]])

\* the lines of a log that json.loads rejects
unparseable(log) == {i \in 1..Len(log) : log[i].timestamp = NoTs}
\* the keys of the lines of a log that json.loads accepts
parsed_keys(log) == {log[i].timestamp : i \in (1..Len(log)) \ unparseable(log)}

\* session s has replayed commentary.jsonl and has not started its first pass
replayed(s) == thr_pc[s] = "scroll" /\ scrolls[s] = 0

\* C15: the replay of a log with N parseable and M unparseable lines does
\* not raise, yields the N records (for the SeenSet: their keys) and records
\* M skips.
C15_ReplayTolerance ==
    \A s \in Sess :
        /\ thr_pc[s] # "raised"
        /\ replayed(s) =>
              /\ seen_timestamps[s] = parsed_keys(commentary_file[req_acct[s]])
              /\ replay_skips(commentary_file[req_acct[s]]) =
                     Cardinality(unparseable(commentary_file[req_acct[s]]))

\* the part of C15 that concerns replays that end: they yield the keys of
\* exactly the parseable records
C15_YieldsParseable ==
    \A s \in Sess : replayed(s) =>
        seen_timestamps[s] = parsed_keys(commentary_file[req_acct[s]])

\* the part of C15 that concerns raising
C15_NeverRaises == \A s \in Sess : thr_pc[s] # "raised"

\* the worker of session s takes its report step
report_step(s) == llm_pc[s] \in {"report", "write"} /\ llm_pc'[s] = "done"

\* the worker of session s opens meta_summary.txt for its text
report_open(s) == llm_pc[s] = "report" /\ llm_pc'[s] = "write"

\* C16: the report step of a worker run writes no meta_summary.txt when
\* summary.jsonl holds no record, and writes it exactly once, from all the
\* records, when there is at least one record and the request succeeds;
\* nothing else writes the file.
C16_MetaReportGating ==
    [][/\ \A s \in Sess : report_step(s) =>
            /\ Len(report_hist'[s]) = 1
            /\ summary_file[req_acct[s]] = <<>> =>
                   /\ report_hist'[s] = <<"skipped">>
                   /\ meta_file' = meta_file
            /\ summary_file[req_acct[s]] # <<>> /\ nfail' = nfail =>
                   /\ report_hist'[s] = <<"written">>
                   /\ meta_file'[req_acct[s]] = <<Len(summary_file[req_acct[s]])>>
       /\ (meta_file' # meta_file \/ report_hist' # report_hist) =>
              \E s \in Sess : report_step(s) \/ report_open(s)]_vars

\* a worker run has written the report from the summaries of the account
C16_Witness ==
    \E s \in Sess :
        /\ llm_pc[s] = "done"
        /\ report_hist[s] = <<"written">>
        /\ meta_file[req_acct[s]] = <<Len(summary_file[req_acct[s]])>>
        /\ summary_file[req_acct[s]] # <<>>

\* one worker run ended without a report for want of summaries and another
\* wrote the report
C16_BothOutcomes ==
    \E s, q \in Sess :
        /\ llm_pc[s] = "done" /\ report_hist[s] = <<"skipped">>
        /\ llm_pc[q] = "done" /\ report_hist[q] = <<"written">>
        /\ meta_file[req_acct[q]] # <<>>

\* C17: a worker run calls generate_overall_report exactly once, after its
\* consume loop has ended and after every item it annotated is in a
\* persisted summary (the remainder included); once the report step is
\* taken the worker appends nothing to commentary.jsonl or summary.jsonl.
C17_EndOfStreamOrdering ==
    /\ [](\A s \in Sess :
            /\ Len(report_hist[s]) = IF llm_pc[s] = "done" THEN 1 ELSE 0
            /\ llm_pc[s] \in {"report", "write", "done"} =>
                   total_len(sum_hist[s]) = Len(ann_hist[s]))
    /\ [][\A s \in Sess :
            /\ report_step(s) => left_loop(s) /\ report_hist[s] = <<>>
            /\ llm_pc[s] = "done" =>
                   /\ llm_pc'[s] = "done"
                   /\ ann_hist'[s] = ann_hist[s]
                   /\ sum_hist'[s] = sum_hist[s]
                   /\ report_hist'[s] = report_hist[s]]_vars

\* a worker run of two full blocks and a remainder has taken its report step
C17_Witness ==
    \E s \in Sess :
        /\ llm_pc[s] = "done"
        /\ Len(sum_hist[s]) = 3
        /\ Len(sum_hist[s][3]) \in 1..(BlockSize - 1)
        /\ Len(report_hist[s]) = 1

\* a sequence of timestamps in ascending order
ascending(q) == \A i, j \in 1..Len(q) : i < j => q[i] <= q[j]

\* C18: every record of summary.jsonl lists its member keys in ascending
\* timestamp order, in whatever order the items were annotated.
C18_BatchSort ==
    \A a \in Accounts : \A i \in 1..Len(summary_file[a]) :
        ascending(summary_file[a][i].block_tweets)

\* C18 for llm_worker alone
C18_WorkerBatchSort == program = "409rollingsummary" => C18_BatchSort

\* the number of error-marked records of a summary.jsonl
marked_summaries(log) == Cardinality({i \in 1..Len(log) : log[i].error})

\* the number of failed summary requests of the sessions 1..n of account a
RECURSIVE failed_summaries(_, _)
failed_summaries(n, a) ==
    IF n = 0 THEN 0
    ELSE (IF req_acct[n] = a THEN sum_fail[n] ELSE 0) + failed_summaries(n - 1, a)

\* the annotating thread of session s is in its loop
in_loop(s) ==
    IF program = "409rollingsummary"
    THEN llm_pc[s] \in {"get", "alive_check", "trim", "post"}
    ELSE thr_pc[s] \in {"scroll", "trim", "post"}

\* C19: when a summary request fails, a summary record with the error marker
\* and the member keys is still appended, the pending block is cleared and
\* the worker goes on: every annotated item is either in the pending block
\* or in a persisted summary record, and as many records carry the marker as
\* summary requests failed.
C19_SummarizerIsolation ==
    /\ \A s \in Sess : in_loop(s) =>
           total_len(sum_hist[s]) + Len(block_tweets[s]) = Len(ann_hist[s])
    /\ \A a \in Accounts :
           marked_summaries(summary_file[a]) = failed_summaries(MaxSessions, a)

\* C19 for llm_worker alone
C19_WorkerIsolation == program = "409rollingsummary" => C19_SummarizerIsolation

\* a summary request of llm_worker has failed on a full block and the
\* worker is back in its loop
C19_WorkerWitness ==
    \E s \in Sess :
        /\ program = "409rollingsummary"
        /\ sum_fail[s] = 1
        /\ llm_pc[s] = "get"
        /\ Len(sum_hist[s]) = 1

\* a thread of session s is in a backend request, which has no timeout
pending_call(s) ==
    \/ llm_pc[s] \in {"post", "block", "remainder", "report"}
    \/ thr_pc[s] \in {"post", "block"}

\* the collector of session s has not finished its passes
collecting(s) == thr_pc[s] \in {"scroll", "trim", "post", "block"}

\* the collector of session s starts its next pass or ends after the last
collector_pass(s) ==
    \/ scrape_worker_scroll(s) \/ scrape_worker_close(s)
    \/ scrape_and_comment_scroll(s) \/ scrape_and_comment_close(s)

\* the collector of session s handles an article of the current pass
collector_article(s) ==
    \E ts \in Keys, c \in BOOLEAN :
        scrape_worker_tweet(s, ts, c) \/ scrape_and_comment_tweet(s, ts, c)

\* C20: while a backend request of a session is blocked, its collector can
\* take every step of its remaining passes: handle the articles of the
\* current pass, start the next pass, end after the last.
C20_StallIsolation ==
    \A s \in Sess : pending_call(s) /\ collecting(s) =>
        /\ ENABLED collector_pass(s)
        /\ scrolls[s] >= 1 => ENABLED collector_article(s)

\* C20 for the threads of 409rollingsummary.py alone
C20_WorkerStallIsolation == program = "409rollingsummary" => C20_StallIsolation

\* the worker is in a request while the collector has passes left
C20_WorkerWitness ==
    \E s \in Sess :
        /\ program = "409rollingsummary"
        /\ llm_pc[s] = "post"
        /\ thr_pc[s] = "scroll"
        /\ scrolls[s] < MaxScrolls

\* session s has a running thread that appends to commentary.jsonl and
\* summary.jsonl of its account
writer(s) ==
    IF program = "409rollingsummary"
    THEN llm_pc[s] \in {"get", "alive_check", "trim", "post", "block", "remainder"}
    ELSE thr_pc[s] \in {"scroll", "trim", "post", "block"}

\* C21: at every moment at most one running thread appends to the
\* commentary.jsonl and summary.jsonl of an account, whatever sessions
\* index() starts for it.
C21_SingleWriter ==
    \A a \in Accounts :
        Cardinality({s \in Sess : req_acct[s] = a /\ writer(s)}) <= 1

\* C21 for the single-threaded program when POSTs are handled one at a time
C21_SingleThreadWriter == program = "rollingsummary" => C21_SingleWriter
\* ---------------------------------------------------------------------
\* two accounts followed at once: POSTs for either account, handlers served
\* one at a time
TwoIndex ==
    \/ \E r \in Sess, a \in Accounts : no_handler_running /\ index_check(r, a)
    \/ \E r \in Sess : index_start(r)
    \/ \E r \in Sess : index_register(r)

TwoNext == TwoIndex \/ Collector \/ Source \/ Worker \/ Single

TwoSpec == Init /\ [][TwoNext]_vars

\* sessions s and q run for different accounts
other_account(s, q) ==
    /\ s # q
    /\ thr_pc[s] # "unborn" /\ thr_pc[q] # "unborn"
    /\ req_acct[s] # req_acct[q]

\* C22: two concurrent sessions for different accounts share no mutable
\* state: the browser session of one is never refused or shared because of
\* the other, i.e. no session's launch raises and no two sessions of
\* different accounts have their browsers open on the same profile directory
C22_SessionIndependence ==
    \A s, q \in Sess :
        other_account(s, q) =>
            /\ thr_pc[s] # "raised"
            /\ (browsing(s) /\ browsing(q)) => profile_dir(s) # profile_dir(q)

\* C22, the part that holds: a log of an account changes only in a step of
\* a session of that account
C22_LogsPerAccount ==
    [][\A a \in Accounts :
          (\/ commentary_file'[a] # commentary_file[a]
           \/ tweets_file'[a] # tweets_file[a]
           \/ summary_file'[a] # summary_file[a]
           \/ meta_file'[a] # meta_file[a]) =>
              \E s \in Sess : /\ req_acct[s] = a
                              /\ \/ llm_pc'[s] # llm_pc[s]
                                 \/ thr_pc'[s] # thr_pc[s]
                                 \/ seen_timestamps'[s] # seen_timestamps[s]]_vars

\* ---------------------------------------------------------------------
\* feed 351-381: the value of "live" that the page is rendered with, for a
\* request with argument live; without commentary.jsonl the page is the
\* "No data found" text
feed(a, live) ==
    IF commentary_file[a] = <<>> THEN "nodata"
    ELSE IF scrape_threads[a] # NoThread /\ ~is_alive(scrape_threads[a]) THEN "0"
    ELSE live

\* the worker of session s has not terminated
worker_running(s) ==
    IF program = "409rollingsummary"
    THEN writer(s) \/ llm_pc[s] \in {"report", "write"}
    ELSE writer(s)

\* C24: the feed turns live polling off for a session only once its
\* Annotation Worker has drained and terminated: while the worker of the
\* registered session still runs, a live request is answered live
C24_LiveSignal ==
    \A a \in Accounts, s \in Sess :
        (scrape_threads[a] = s /\ req_acct[s] = a /\ worker_running(s)) =>
            feed(a, "1") # "0"

\* C24, where it holds: in rollingsummary.py the registered thread is the
\* annotating thread itself
C24_ThreadLiveSignal == program = "rollingsummary" => C24_LiveSignal
\* ---------------------------------------------------------------- FailSpec
\* one session whose source may fail: the browser cannot be opened, or the
\* scraper raises between two articles
Failure ==
    \/ \E s \in Sess : orchestrator(s, FALSE)
    \/ \E s \in Sess : scrape_worker_raise(s)

FailNext == OneIndex \/ Collector \/ OneSource \/ Worker \/ Single \/ Failure

FailSpec == Init /\ [][FailNext]_vars

\* the collector of session s failed fatally and its worker has terminated
failed_over(s) ==
    /\ program = "409rollingsummary"
    /\ thr_pc[s] = "raised"
    /\ llm_pc[s] = "done"

\* C25: when the Collector of a session fails fatally, the Annotation Worker
\* still drains every item already queued, writes the remainder summary and
\* runs the meta-report step before it terminates
C25_SourceFailure ==
    \A s \in Sess :
        failed_over(s) =>
            /\ put_hist[s] = ann_hist[s]
            /\ tweet_queue[s] = <<>>
            /\ total_len(sum_hist[s]) = Len(ann_hist[s])
            /\ Len(report_hist[s]) = 1

\* C25, the part that holds: after a fatal failure the worker still writes
\* the remainder summary of what it annotated and takes the report step
C25_SummaryAndReport ==
    \A s \in Sess :
        failed_over(s) =>
            /\ total_len(sum_hist[s]) = Len(ann_hist[s])
            /\ Len(report_hist[s]) = 1

\* a collector raised after queueing an item, the worker annotated it
C25_SummaryAndReportWitness ==
    \E s \in Sess : failed_over(s) /\ Len(ann_hist[s]) >= 1

\* ---------------------------------------------------------------------
\* the collector of session s is between two articles of a pass
between_articles(s) == thr_pc[s] = "scroll" /\ scrolls[s] >= 1

\* the collector of session s accepts an article with the unseen key ts
accepts(s, ts) ==
    /\ scrape_worker_tweet(s, ts, TRUE) \/ scrape_and_comment_tweet(s, ts, TRUE)
    /\ ts \in seen_timestamps'[s]
    /\ put_hist'[s] = Append(put_hist[s], ts)

\* the keys that session s marked without delivering the item: candidates
\* whose content extraction failed
skipped_candidates(s) ==
    seen_timestamps[s] \ (Range(put_hist[s]) \cup logged_keys(commentary_file[req_acct[s]]))

\* C26: a failure while extracting one candidate skips only that candidate:
\* the collector thread never ends with an exception, between two articles
\* every unseen candidate can still be accepted and the next pass (or the
\* end) can still be taken, and the thread ends only by closing the browser
\* after the last pass of its scroll budget
C26_ExtractionIsolation ==
    /\ [](\A s \in Sess :
            /\ thr_pc[s] # "raised"
            /\ between_articles(s) =>
                   /\ \A ts \in Keys \ seen_timestamps[s] : ENABLED accepts(s, ts)
                   /\ ENABLED collector_pass(s))
    /\ [][\A s \in Sess :
            (is_alive(s) /\ ~is_alive(s)') =>
                /\ thr_pc[s] = "scroll" /\ thr_pc'[s] = "done"
                /\ scrolls[s] = MaxScrolls]_vars

\* a collector skipped a candidate whose content extraction failed, accepted
\* another candidate and ended normally after its last pass
C26_Witness ==
    \E s \in Sess :
        /\ thr_pc[s] = "done"
        /\ scrolls[s] = MaxScrolls
        /\ skipped_candidates(s) # {}
        /\ put_hist[s] # <<>>

\* ---------------------------------------------------------------------
\* C27: meta_summary.txt is a singleton that is overwritten: whatever worker
\* runs have happened, the file holds one text, never several texts or
\* parts of several
C27_MetaReportSingleton ==
    \A a \in Accounts : Len(meta_file[a]) <= 1

\* C27, the part that holds: a generation whose request fails is not
\* propagated (the worker ends as after a success), writes nothing and
\* leaves the file as it was
C27_FailureWritesNothing ==
    [][\A s \in Sess :
          (report_step(s) /\ report_hist'[s] = <<"failed">>) =>
              /\ meta_file' = meta_file
              /\ llm_pc'[s] = "done"]_vars

\* a worker run whose report request failed after an earlier run had written
\* the report
C27_FailureWitness ==
    \E s, q \in Sess :
        /\ report_hist[s] = <<"failed">>
        /\ report_hist[q] = <<"written">>
        /\ meta_file[req_acct[s]] # <<>>

\* ----------------------------------------------------------------- KeySpec
\* One collecting run of each of the four scripts over candidates that have
\* a native id or none, an origin or none, and a timestamp.
MaxAccepted == 2

KeyPrograms == {"425homescrape", "100scrollaccntscrape", "409rollingsummary", "rollingsummary"}

NoId == ""
NoUser == ""
NativeIds == {NoId, "101", "102"}
Usernames == {NoUser, "alice", "bob"}

\* an article as the page presents it
Candidates ==
    [id : NativeIds, username : Usernames, timestamp : CrashKeys]

\* 425homescrape 129: const user = href.split('/').slice(-3,-2)[0] || 'unknown'
username_425(t) == IF t.username = NoUser THEN "unknown" ELSE t.username

\* 425homescrape 158: tid = t.get('id') or f"{t['username']}_{t['timestamp']}"
\* (an id is a string of digits and a composite contains "_": the two kinds
\* of key never coincide)
tid_425(t) ==
    IF t.id # NoId THEN <<"id", t.id, 0>>
    ELSE <<"composite", username_425(t), t.timestamp>>

\* 100scrollaccntscrape 334-337: const id = tweetId || (timestamp && username
\* ? `${username}_${timestamp}` : `unknown_${time}_${random}`); fresh stands
\* for the random suffix
id_100(t, fresh) ==
    IF t.id # NoId THEN <<"id", t.id, 0>>
    ELSE IF t.username # NoUser THEN <<"composite", t.username, t.timestamp>>
    ELSE <<"unknown", "", fresh>>

\* 409rollingsummary 122-129, rollingsummary 123-128: the timestamp alone
timestamp_key(t) == <<"timestamp", "", t.timestamp>>

\* the dedup key that the script derives for candidate t
dedup_key(prog, t, fresh) ==
    CASE prog = "425homescrape" -> tid_425(t)
      [] prog = "100scrollaccntscrape" -> id_100(t, fresh)
      [] OTHER -> timestamp_key(t)

\* 425homescrape 157-161, 100scrollaccntscrape 383-392, 409rollingsummary
\* 122-158: a candidate whose key is in the set is skipped; otherwise the
\* key is added and the candidate is written
collect(t) ==
    /\ Len(new_tweets) < MaxAccepted
    /\ LET key == dedup_key(program, t, Len(new_tweets)) IN
       IF key \in seen_ids
       THEN UNCHANGED <<seen_ids, new_tweets>>
       ELSE /\ seen_ids' = seen_ids \cup {key}
            /\ new_tweets' = Append(new_tweets, t)
    /\ UNCHANGED <<shutdown_vars, context_length, report_text,
                   offered, report_hist, sum_fail, crashes,
                   program, req_pc, req_acct, scrape_threads, thr_pc, llm_pc,
                   scrolls, seen_timestamps, tweet_queue, tweet, context,
                   block_tweets, tweets_file, commentary_file, summary_file,
                   meta_file, start_log, put_hist, ann_hist, sum_hist,
                   failed, nfail>>

KeyInit ==
    /\ program \in KeyPrograms
    /\ context_length = rolling_context_length
    /\ InitCommon

KeyNext == \E t \in Candidates : collect(t)

KeySpec == KeyInit /\ [][KeyNext]_vars

\* the key of the claim: the native id when present, otherwise the
\* composite of origin and timestamp
composite_key(t) ==
    IF t.id # NoId THEN <<"id", t.id, 0>>
    ELSE <<"composite", t.username, t.timestamp>>

\* two candidates that differ in their native ids or, without ids, in
\* their origins
distinct_items(t, u) ==
    \/ t.id # NoId /\ u.id # NoId /\ t.id # u.id
    \/ t.id = NoId /\ u.id = NoId /\ t.username # NoUser /\ u.username # NoUser
           /\ t.username # u.username

\* the run accepts candidate t next
accepted_next(t) == collect(t) /\ new_tweets' = Append(new_tweets, t)

\* C28: the dedup key of an accepted item with an origin is its native id
\* when present and otherwise the composite of origin and timestamp, and a
\* candidate that has the timestamp of an accepted item but another native
\* id (or, without ids, another origin) is accepted as well
C28_KeyDerivation ==
    \A i \in 1..Len(new_tweets) :
        /\ new_tweets[i].username # NoUser => composite_key(new_tweets[i]) \in seen_ids
        /\ \A t \in Candidates :
              (/\ t.timestamp = new_tweets[i].timestamp
               /\ distinct_items(t, new_tweets[i])
               /\ Len(new_tweets) = 1) => ENABLED accepted_next(t)

\* C28, where it holds: the two scripts whose extractor returns an id
C28_ExtractorKey ==
    program \in {"425homescrape", "100scrollaccntscrape"} => C28_KeyDerivation

\* two items with one timestamp and different origins, without native ids,
\* were both accepted
C28_ExtractorKeyWitness ==
    /\ Len(new_tweets) = 2
    /\ new_tweets[1].timestamp = new_tweets[2].timestamp
    /\ new_tweets[1].id = NoId /\ new_tweets[2].id = NoId
    /\ new_tweets[1].username # new_tweets[2].username
    /\ new_tweets[1].username # NoUser /\ new_tweets[2].username # NoUser
\* ---------------------------------------------------------------------
\* the worker of session s is at tweet_queue.get
at_get(s) == program = "409rollingsummary" /\ llm_pc[s] \in {"get", "alive_check"}

\* the keys of the annotated items number i..j of session s
annotated(s, i, j) == {ann_hist[s][n] : n \in i..j}

\* C29: the summary of a full buffer is persisted and the buffer cleared
\* before the worker dequeues the next item: whenever the worker is at get
\* the buffer holds fewer than BlockSize items, and whenever annotated item
\* number BlockSize*k+1 (or a later one) is written the k-th summary record
\* of the run is already there and covers the items BlockSize*k-BlockSize+1
\* .. BlockSize*k
C29_SynchronousSummary ==
    \A s \in Sess :
        program = "409rollingsummary" =>
            /\ at_get(s) => Len(block_tweets[s]) < BlockSize
            /\ \A k \in 1..Len(ann_hist[s]) :
                   BlockSize * k < Len(ann_hist[s]) =>
                       /\ Len(sum_hist[s]) >= k
                       /\ Range(sum_hist[s][k]) =
                              annotated(s, BlockSize * k - BlockSize + 1, BlockSize * k)

\* the worker is back at get with item BlockSize+1 annotated after the first
\* summary
C29_Witness ==
    \E s \in Sess :
        /\ at_get(s)
        /\ Len(ann_hist[s]) = BlockSize + 1
        /\ Len(sum_hist[s]) = 1
        /\ Len(block_tweets[s]) = 1

\* ---------------------------------------------------------------------
\* the context of session s is the one sent with the commentary request
context_sent(s) ==
    IF program = "409rollingsummary" THEN llm_pc[s] = "post" ELSE thr_pc[s] = "post"

\* C30: trimming removes the oldest exchange as a unit: the context sent to
\* the backend holds no assistant turn whose user turn has been trimmed away
C30_WholeExchange ==
    \A s \in Sess :
        context_sent(s) =>
            \A i \in 1..Len(context[s]) :
                context[s][i].role = "assistant" =>
                    \E j \in 1..(i - 1) : context[s][j] = user_turn(context[s][i].key)

\* ------------------------------------------------------------ ShutdownSpec
\* 100scrollaccntscrape.py: the scrape threads register their browser
\* context in browser_contexts; SIGINT / SIGTERM run signal_handler in the
\* main thread.
MaxSignals == 2

\* what the shutdown path of 100scrollaccntscrape.py never touches
scraper_frame ==
    /\ UNCHANGED <<key_vars, context_length, report_text, offered, report_hist, sum_fail, crashes,
                   program, req_pc, req_acct, scrape_threads, llm_pc,
                   seen_timestamps, tweet_queue, tweet, context, block_tweets,
                   tweets_file, commentary_file, summary_file, meta_file,
                   start_log, put_hist, ann_hist, sum_hist, failed, nfail>>

\* context.close(): an open context becomes closed
close(ctx, q) == [ctx EXCEPT ![q] = IF @ = "open" THEN "closed" ELSE @]

\* the accounts with an entry in browser_contexts
registered == {a \in Accounts : browser_contexts[a] # NoThread}

\* scrape_tweets 28-59: playwright is started and the persistent context
\* launched; a failure is caught at 404 and goes to the finally block
scrape_tweets(s, opened) ==
    /\ program = "100scrollaccntscrape"
    /\ sig_pc # "exited"
    /\ thr_pc[s] = "replay"
    /\ ctx_open' = [ctx_open EXCEPT ![s] = IF opened THEN "open" ELSE @]
    /\ thr_pc' = [thr_pc EXCEPT ![s] = IF opened THEN "launched" ELSE "cleanup"]
    /\ UNCHANGED <<browser_contexts, sig_pc, signals, handler_todo, handler_size, scrolls>>
    /\ scraper_frame

\* scrape_tweets 62: browser_contexts[account_name] = browser_context
scrape_tweets_register(s) ==
    /\ program = "100scrollaccntscrape"
    /\ sig_pc # "exited"
    /\ thr_pc[s] = "launched"
    /\ browser_contexts' = [browser_contexts EXCEPT ![req_acct[s]] = s]
    /\ thr_pc' = [thr_pc EXCEPT ![s] = "scroll"]
    /\ UNCHANGED <<ctx_open, sig_pc, signals, handler_todo, handler_size, scrolls>>
    /\ scraper_frame

\* scrape_tweets 64-402: one pass of the scroll loop; a page operation raises
\* when the context was closed under the thread (or for any other reason, ok
\* false), which ends the loop at 404; so does the end of the scroll budget
scrape_tweets_scroll(s, ok) ==
    /\ program = "100scrollaccntscrape"
    /\ sig_pc # "exited"
    /\ thr_pc[s] = "scroll"
    /\ IF ok /\ ctx_open[s] = "open" /\ scrolls[s] < MaxScrolls
       THEN /\ scrolls' = [scrolls EXCEPT ![s] = @ + 1]
            /\ UNCHANGED thr_pc
       ELSE /\ thr_pc' = [thr_pc EXCEPT ![s] = "cleanup"]
            /\ UNCHANGED scrolls
    /\ UNCHANGED <<browser_contexts, ctx_open, sig_pc, signals, handler_todo, handler_size>>
    /\ scraper_frame

\* scrape_tweets 407-429, the finally block: the registered context of the
\* account is closed and its entry deleted (when that close raises, closes
\* false, the del is skipped); then the thread's own context is closed if it
\* is not, and playwright is stopped
scrape_tweets_finally(s, closes) ==
    /\ program = "100scrollaccntscrape"
    /\ sig_pc # "exited"
    /\ thr_pc[s] = "cleanup"
    /\ LET a == req_acct[s]
           q == browser_contexts[a]
           shut == q # NoThread /\ (closes \/ ctx_open[q] # "open")
       IN  /\ browser_contexts' = [browser_contexts EXCEPT ![a] = IF shut THEN NoThread ELSE @]
           /\ ctx_open' = close(IF shut THEN close(ctx_open, q) ELSE ctx_open, s)
    /\ thr_pc' = [thr_pc EXCEPT ![s] = "done"]
    /\ UNCHANGED <<sig_pc, signals, handler_todo, handler_size, scrolls>>
    /\ scraper_frame

\* SIGINT or SIGTERM arrives while the server runs: signal_handler 15-17
\* begins "for account_name, context in browser_contexts.items()"
signal_arrives ==
    /\ program = "100scrollaccntscrape"
    /\ sig_pc = "serving"
    /\ signals < MaxSignals
    /\ signals' = signals + 1
    /\ sig_pc' = "handler"
    /\ handler_todo' = registered
    /\ handler_size' = Cardinality(registered)
    /\ UNCHANGED <<browser_contexts, ctx_open, thr_pc, scrolls>>
    /\ scraper_frame

\* signal_handler 17-23: one step of the iteration. A dictionary whose size
\* changed since the iteration began raises RuntimeError out of the handler
\* and the main thread unwinds; otherwise the next context is closed, a
\* failure being swallowed (closes false); after the last one sys.exit(0)
signal_handler(a, closes) ==
    /\ program = "100scrollaccntscrape"
    /\ sig_pc = "handler"
    /\ IF Cardinality(registered) # handler_size \/ handler_todo = {}
       THEN /\ sig_pc' = "finalizing"
            /\ handler_todo' = {}
            /\ UNCHANGED ctx_open
       ELSE /\ a \in handler_todo
            /\ handler_todo' = handler_todo \ {a}
            /\ ctx_open' = IF closes /\ browser_contexts[a] # NoThread
                           THEN close(ctx_open, browser_contexts[a]) ELSE ctx_open
            /\ UNCHANGED sig_pc
    /\ UNCHANGED <<browser_contexts, signals, handler_size, thr_pc, scrolls>>
    /\ scraper_frame

\* an exit that does not wait for the scrape threads
process_exit_mutant(closes) ==
    /\ program = "100scrollaccntscrape"
    /\ sig_pc = "finalizing"
    /\ ctx_open' = [q \in Sess |->
           IF closes /\ \E a \in registered : browser_contexts[a] = q
           THEN close(ctx_open, q)[q] ELSE ctx_open[q]]
    /\ browser_contexts' = [a \in Accounts |-> NoThread]
    /\ thr_pc' = [q \in Sess |-> IF is_alive(q) THEN "killed" ELSE thr_pc[q]]
    /\ sig_pc' = "exited"
    /\ UNCHANGED <<signals, handler_todo, handler_size, scrolls>>
    /\ scraper_frame

\* the main thread has left app.run (524): the interpreter waits for the
\* scrape threads, which are not daemon threads (455), then runs
\* cleanup_browsers 434-442 (atexit) over what is still registered, and exits
process_exit(closes) ==
    /\ program = "100scrollaccntscrape"
    /\ sig_pc = "finalizing"
    /\ \A q \in Sess : ~is_alive(q)
    /\ ctx_open' = [q \in Sess |->
           IF closes /\ \E a \in registered : browser_contexts[a] = q
           THEN close(ctx_open, q)[q] ELSE ctx_open[q]]
    /\ browser_contexts' = [a \in Accounts |-> NoThread]
    /\ thr_pc' = [q \in Sess |-> IF is_alive(q) THEN "killed" ELSE thr_pc[q]]
    /\ sig_pc' = "exited"
    /\ UNCHANGED <<signals, handler_todo, handler_size, scrolls>>
    /\ scraper_frame

\* a further signal while the interpreter waits for the scrape threads:
\* signal_handler runs again in the main thread and its sys.exit(0) ends the
\* wait; cleanup_browsers runs and the process exits with the threads that
\* still run
signal_while_waiting(closes) ==
    /\ program = "100scrollaccntscrape"
    /\ sig_pc = "finalizing"
    /\ signals < MaxSignals
    /\ \E q \in Sess : is_alive(q)
    /\ signals' = signals + 1
    /\ ctx_open' = [q \in Sess |->
           IF closes /\ \E a \in registered : browser_contexts[a] = q
           THEN close(ctx_open, q)[q] ELSE ctx_open[q]]
    /\ browser_contexts' = [a \in Accounts |-> NoThread]
    /\ thr_pc' = [q \in Sess |-> IF is_alive(q) THEN "killed" ELSE thr_pc[q]]
    /\ sig_pc' = "exited"
    /\ UNCHANGED <<handler_todo, handler_size, scrolls>>
    /\ scraper_frame

ShutdownIndex ==
    \/ \E r \in Sess, a \in Accounts :
           sig_pc \in {"serving", "handler"} /\ no_handler_running /\ index_check(r, a)
    \/ \E r \in Sess : sig_pc \in {"serving", "handler"} /\ index_start(r)
    \/ \E r \in Sess : sig_pc \in {"serving", "handler"} /\ index_register(r)

Scraper ==
    \/ \E s \in Sess, opened \in BOOLEAN : scrape_tweets(s, opened)
    \/ \E s \in Sess : scrape_tweets_register(s)
    \/ \E s \in Sess, ok \in BOOLEAN : scrape_tweets_scroll(s, ok)
    \/ \E s \in Sess, closes \in BOOLEAN : scrape_tweets_finally(s, closes)

Shutdown ==
    \/ signal_arrives
    \/ \E a \in Accounts, closes \in BOOLEAN : signal_handler(a, closes)
    \/ \E closes \in BOOLEAN : process_exit(closes)
    \/ \E closes \in BOOLEAN : signal_while_waiting(closes)

ShutdownInit ==
    /\ program = "100scrollaccntscrape"
    /\ context_length = rolling_context_length
    /\ InitCommon

ShutdownNext == ShutdownIndex \/ Scraper \/ Shutdown

ShutdownSpec == ShutdownInit /\ [][ShutdownNext]_vars

\* C23: after an interrupt or termination signal the process exits only
\* with every browser context closed
C23_ShutdownCleanup ==
    sig_pc = "exited" => \A s \in Sess : ctx_open[s] # "open"

\* C23, where it holds: after a single signal the exit waits for the scrape
\* threads, and each of them closes its own context in its finally block
C23_OneSignalCleanup ==
    (sig_pc = "exited" /\ signals = 1) => \A s \in Sess : ctx_open[s] # "open"

\* the process exited after one signal whose handler found nothing in
\* browser_contexts, and a context opened by a scrape thread was closed
C23_OneSignalWitness ==
    /\ sig_pc = "exited"
    /\ signals = 1
    /\ handler_size = 0
    /\ \E s \in Sess : ctx_open[s] = "closed"
\* ---------------------------------------------------------------- TrimSpec
\* One session started with any rolling_context_length from 0 to
\* MaxContextLength (orchestrator 287, scrape_and_comment 40: a parameter
\* whose default is 10).
MaxContextLength == 2

TrimInit ==
    /\ program \in Programs
    /\ context_length \in 0..MaxContextLength
    /\ InitCommon

TrimSpec == TrimInit /\ [][OneNext]_vars

\* the items that session s has taken up for annotation, in order
taken_up(s) ==
    IF program = "409rollingsummary"
    THEN ann_hist[s] \o (IF llm_pc[s] \in {"trim", "post"} THEN <<tweet[s]>> ELSE <<>>)
    ELSE put_hist[s]

\* every turn appended after the leading entry for the items q, untrimmed:
\* the user turn of each item and, when the item was annotated, its
\* assistant turn
RECURSIVE turns(_, _)
turns(q, done) ==
    IF q = <<>> THEN <<>>
    ELSE <<user_turn(Head(q))>>
         \o (IF Head(q) \in done THEN <<assistant_turn(Head(q))>> ELSE <<>>)
         \o turns(Tail(q), done)

\* the k most recent entries of a list, none when k = 0
newest(lst, k) == SubSeq(lst, Len(lst) - k + 1, Len(lst))

\* the smaller of two numbers
min(a, b) == IF a <= b THEN a ELSE b

\* C31: right after the trim step the context is the leading entry
\* followed by exactly the min(N, entries so far) most recent entries, in
\* their order, for every rolling_context_length N >= 0
C31_TrimKeepsNewest ==
    \A s \in Sess :
        context_sent(s) =>
            LET all == turns(taken_up(s), Range(ann_hist[s]))
            IN  context[s] = initial_context(program)
                                 \o newest(all, min(context_length, Len(all)))

\* C31, where it holds: every rolling_context_length of at least 1
C31_TrimKeepsNewestPositive ==
    context_length >= 1 => C31_TrimKeepsNewest

\* a context that was cut to the leading entry and the newest entries
C31_PositiveWitness ==
    \E s \in Sess :
        /\ context_sent(s)
        /\ context_length >= 1
        /\ Len(turns(taken_up(s), Range(ann_hist[s]))) > context_length
        /\ Len(context[s]) = context_length + 1

\* -------------------------------------------------------------- ReportSpec
\* One session over an account directory whose summary.jsonl was left with
\* a line that is JSON without a "summary" key (the file outlives the
\* process and is read back line by line at generate_overall_report 26-31).
LeftSummaries == {<<>>, <<MalformedRecord>>}

ReportInit ==
    /\ program \in Programs
    /\ context_length = rolling_context_length
    /\ \E left \in LeftSummaries : InitLeft(left)

ReportSpec == ReportInit /\ [][OneNext]_vars

\* C32: a summary.jsonl line that is JSON but has no summary field is
\* skipped by generate_overall_report: no exception reaches the worker
C32_MalformedSkipped ==
    \A s \in Sess : llm_pc[s] # "raised"

\* C33: in the single-threaded variant every item appended to tweets.jsonl
\* in a session has, once its turn is over, a commentary.jsonl record of
\* that session (with an error marker when the request failed or gave no
\* usable commentary) and was counted in the block buffer
C33_RawItemAnnotated ==
    program = "rollingsummary" =>
        \A s \in Sess :
            thr_pc[s] \in {"scroll", "block", "done"} =>
                /\ Range(put_hist[s]) \subseteq logged_keys(commentary_file[req_acct[s]])
                /\ Len(put_hist[s]) = Len(ann_hist[s])

\* the item a thread of session s holds between taking it up and the end
\* of its request
held(s) ==
    IF llm_pc[s] \in {"trim", "post"} \/ thr_pc[s] \in {"trim", "post"}
    THEN {tweet[s]} ELSE {}

\* C34: write-ahead order: every item that is in the queue, is held by the
\* annotating thread or has a commentary.jsonl record already has its
\* tweets.jsonl record (the append at scrape_worker 155-156 precedes the put
\* at 158 in the same thread, and an item is seen by the worker only after
\* the put, so the two are one step here)
C34_WriteAhead ==
    /\ \A s \in Sess :
           Range(tweet_queue[s]) \cup held(s) \cup Range(ann_hist[s])
               \subseteq Range(tweets_file[req_acct[s]])
    /\ \A a \in Accounts :
           logged_keys(commentary_file[a]) \ {NoTs} \subseteq Range(tweets_file[a])

\* a session with an item waiting in the queue, one held by the worker and
\* one annotated
C34_Witness ==
    \E s \in Sess :
        /\ program = "409rollingsummary"
        /\ tweet_queue[s] # <<>>
        /\ llm_pc[s] = "post"
        /\ ann_hist[s] # <<>>
        /\ Len(tweets_file[req_acct[s]]) >= 3

\* the llm_worker thread of session s has terminated
worker_ended(s) == llm_pc[s] \in {"done", "raised"}

\* the summary records of the run of session s that list item k
batches_with(s, k) == {i \in 1..Len(sum_hist[s]) : k \in Range(sum_hist[s][i])}

\* C35: batch partition: when llm_worker has terminated, every item it
\* annotated in the run is a member of exactly one summary record written in
\* the run, and every such record has between 1 and 10 members
C35_BatchPartition ==
    \A s \in Sess :
        program = "409rollingsummary" /\ worker_ended(s) =>
            /\ \A k \in Range(ann_hist[s]) : Cardinality(batches_with(s, k)) = 1
            /\ \A i \in 1..Len(sum_hist[s]) : Len(sum_hist[s][i]) \in 1..BlockSize
            /\ \A i \in 1..Len(sum_hist[s]) :
                   Range(sum_hist[s][i]) \subseteq Range(ann_hist[s])

\* a terminated worker that annotated exactly two full blocks: two records
\* and no empty third one
C35_Witness ==
    \E s \in Sess :
        /\ program = "409rollingsummary"
        /\ worker_ended(s)
        /\ Len(ann_hist[s]) = 2 * BlockSize
        /\ Len(sum_hist[s]) = 2
        /\ failed[s] # {}

\* the scrape threads started for account a that are alive
live_collectors(a) == {s \in Sess : req_acct[s] = a /\ is_alive(s)}

\* C36: at most one scrape thread per account is alive at a time, for any
\* sequence and interleaving of POST requests to index()
C36_OneCollector ==
    \A a \in Accounts : Cardinality(live_collectors(a)) <= 1

\* the keys of the commentary.jsonl records whose commentary is the error
\* marker
error_keys(log) == {log[i].timestamp : i \in {j \in 1..Len(log) : log[j].error}}

\* the collector of session s has replayed commentary.jsonl and is at work
\* or has finished
past_replay(s) == thr_pc[s] \in {"scroll", "trim", "post", "block", "done"}

\* C37: an error-marked record counts as annotated: a key that had such a
\* record when a session started is in the seen set of that session once it
\* has replayed the log, and the session never appends it to tweets.jsonl,
\* enqueues it or annotates it again
C37_ErrorMarkedSeen ==
    \A s \in Sess :
        \A k \in start_log[s] \cap error_keys(commentary_file[req_acct[s]]) :
            /\ past_replay(s) => k \in seen_timestamps[s]
            /\ k \notin Range(put_hist[s]) \cup Range(tweet_queue[s])
            /\ k \notin Range(ann_hist[s]) \cup held(s)

\* a later session was offered an item whose only record is error-marked
\* and finished its passes without taking it
C37_Witness ==
    \E s \in Sess :
        \E k \in start_log[s] \cap error_keys(commentary_file[req_acct[s]]) :
            /\ k \in offered[s]
            /\ thr_pc[s] = "done"
            /\ scrolls[s] = MaxScrolls

\* no scrape_tweets thread of account a is between its start and its return
no_scraper(a) == \A q \in Sess : req_acct[q] = a => ~is_alive(q)

\* C38: once scrape_tweets has returned for an account (no thread of the
\* account is still running) browser_contexts holds no entry for it, whether
\* the scrolls finished or an exception ended them and whether or not the
\* close of the context failed
C38_RegistryCleanup ==
    \A s \in Sess :
        /\ program = "100scrollaccntscrape"
        /\ thr_pc[s] = "done"
        /\ no_scraper(req_acct[s])
        => browser_contexts[req_acct[s]] = NoThread
====
